---- MODULE Spec2Model ----
(***************************************************************************)
(* Model of the Bass-ic Finance pipeline services.                         *)
(*                                                                         *)
(* The video assembler (cloud_run/video_assembler/main.py) is modelled as  *)
(* a set of request threads of one Flask process.  Each thread runs the    *)
(* handler assemble_video step by step; one step is one external call (a   *)
(* blob download, an ffmpeg run, the upload) or one local file write.      *)
(* Strings are modelled as sequences of tokens, files and blobs as         *)
(* functions from names to contents.                                       *)
(*                                                                         *)
(* The Cloud Run image generator (cloud_run/image_generator/main.py) is    *)
(* modelled the same way, with its lazily initialized module globals, and  *)
(* the audio generator (cloud_functions/audio_generator/main.py) as one    *)
(* step per call.  All services share the blob store.                      *)
(***************************************************************************)
EXTENDS Integers, Sequences, FiniteSets, TLC

VARIABLES
  store,    \* blob store: <<bucket, blob name>> -> content
  fs,       \* local files: path -> content
  dirs,     \* local directories that exist (paths)
  pc,       \* per thread: position in assemble_video
  data,     \* per thread: request.json of the running job
  tmpdir,   \* per thread: the TemporaryDirectory of the running job
  idx,      \* per thread: loop variable i of the download loops
  calls,    \* per thread: external calls made by the running job, in order
  exc,      \* per thread: exception that left the handler unhandled
  resp,     \* per thread: responses sent to the caller of the running job
  trailing, \* frames the installed ffmpeg adds for a last entry without duration
  vertex_initialized, \* image generator global _vertex_initialized
  model,              \* image generator global _model
  storage_client,     \* image generator global _storage_client
  character_profile,  \* image generator global _character_profile
  generation_rules,   \* image generator global _generation_rules
  gpc,      \* per generator thread: position in generate_image
  greq,     \* per generator thread: request_json of the running request
  gresp,    \* per generator thread: responses sent for the running request
  initRuns, \* times the body of initialize_services has been entered
  generated, \* the assets the generators have answered success for
  trace,    \* the stages the job in progress has entered, in order
  prev,     \* what the job before the one in progress did and answered
  fcall,    \* image generator function: the call being answered, if any
  ppc,      \* scene parser: position in parse_script_http
  script_data, \* scene parser: the script being parsed
  answers,  \* scene parser: what the model calls of the request gave, in order
  enhanced_shots, \* scene parser: the list enhanced_shots built so far
  presp,    \* scene parser: responses sent for the running request
  mpc,      \* character sheet generator: position in main
  pose_i,   \* character sheet generator: position of the loop in POSES
  successful, \* character sheet generator: main's counter successful
  failed,   \* character sheet generator: main's counter failed
  attempted, \* character sheet generator: the pose ids passed to generate_pose, in order
  uploaded, \* character sheet generator: the blobs this run has written
  SLACK_WEBHOOK_URL, \* notification service: the webhook read from the environment
  ncall     \* notification service: the /notify call being answered, if any

assemblerVars == <<store, fs, dirs, pc, data, tmpdir, idx, calls, exc, resp>>
genGlobals ==
  <<vertex_initialized, model, storage_client, character_profile, generation_rules>>
generatorVars == <<genGlobals, gpc, greq, gresp, initRuns, generated>>
historyVars == <<trace, prev>>
parserVars == <<ppc, script_data, enhanced_shots, answers, presp>>
sheetVars == <<mpc, pose_i, successful, failed, attempted, uploaded>>
notifyVars == <<SLACK_WEBHOOK_URL, ncall>>
serviceVars == <<fcall, parserVars, sheetVars, notifyVars>>
vars == <<assemblerVars, trailing, generatorVars, historyVars, serviceVars>>

----------------------------------------------------------------------------
(* Bounds of the model *)

MaxScenes == 2
MaxClipDur == 2
TrailFrames == 1
MaxInitRuns == 2

(* Input sets *)

Threads == {1, 2}
SeqThreads == {1}
DirNames == <<"tmpA", "tmpB">>
Durations == {1, 2}
FrameRates == {2, 24}
Resolutions == { <<"1920", "x", "1080">>, <<"1080p">> }
Diagnostics == {"Invalid data found when processing input", "Conversion failed!"}
Filenames == <<"ep001.mp4", "ep002.mp4">>

NoDir == "none"
NoExc == [type |-> "none"]
NoData == [total_scenes |-> 0]
NoRun == [final |-> "none"]

----------------------------------------------------------------------------
(* Pure helpers *)

Min(a, b) == IF a <= b THEN a ELSE b
Max(a, b) == IF a >= b THEN a ELSE b

DigitChars == <<"0", "1", "2", "3", "4", "5", "6", "7", "8", "9">>

RECURSIVE Digits(_)
Digits(n) ==
  IF n < 10 THEN <<DigitChars[n + 1]>>
  ELSE Digits(n \div 10) \o <<DigitChars[(n % 10) + 1]>>

RECURSIVE ZeroPad(_, _)
ZeroPad(s, w) == IF Len(s) >= w THEN s ELSE ZeroPad(<<"0">> \o s, w)

\* Python format spec 03d: sign-aware zero padding to width 3
Fmt03d(i) ==
  IF i >= 0 THEN ZeroPad(Digits(i), 3)
  ELSE <<"-">> \o ZeroPad(Digits(0 - i), 2)

SceneName(i) == <<"scene_">> \o Fmt03d(i) \o <<".png">>
NarrationName(i) == <<"narration_">> \o Fmt03d(i) \o <<".mp3">>

\* f"{data['images_path']}scene_{i:03d}.png"
ImageBlobName(r, i) == r.images_path \o SceneName(i)
\* f"{data['audio_path']}narration_{i:03d}.mp3"
AudioBlobName(r, i) == r.audio_path \o NarrationName(i)
\* f"final/{data['output_filename']}"
OutputBlobName(r) == <<"final/", r.output_filename>>

ImageKey(r, i) == <<r.images_bucket, ImageBlobName(r, i)>>
AudioKey(r, i) == <<r.audio_bucket, AudioBlobName(r, i)>>
OutputKey(r) == <<r.output_bucket, OutputBlobName(r)>>

\* images_dir = tmpdir / "images"; audio_dir = tmpdir / "audio"
ImagesDir(d) == <<d, "images">>
AudioDir(d) == <<d, "audio">>
\* variant: the local file name drops the zero padding of the index
LocalImageUnpadded(d, i) == ImagesDir(d) \o <<"scene_">> \o Digits(i) \o <<".png">>

LocalImage(d, i) == ImagesDir(d) \o SceneName(i)
LocalAudio(d, i) == AudioDir(d) \o NarrationName(i)
ConcatFile(d) == <<d, "concat.txt">>
AudioListFile(d) == <<d, "audio_list.txt">>
FullAudio(d) == <<d, "full_audio.mp3">>
OutputVideo(d, r) == <<d, r.output_filename>>

\* str.split('x') on a token string: the parts between the "x" tokens
RECURSIVE SplitX(_)
SplitX(s) ==
  IF s = <<>> THEN << <<>> >>
  ELSE LET init == SplitX(SubSeq(s, 1, Len(s) - 1))
           last == s[Len(s)]
       IN IF last = "x" THEN Append(init, <<>>)
          ELSE [init EXCEPT ![Len(init)] = Append(@, last)]

----------------------------------------------------------------------------
(* Requests and the initial blob store *)

SceneIndexes == 0 .. (MaxScenes - 1)

ImageContent(i) == [type |-> "png", scene |-> i]
\* an audio clip of d seconds: one sample token per second
AudioContent(i, d) == [type |-> "mp3", samples |-> [t \in 1 .. d |-> <<i, t>>]]

\* "episode_001/": the path prefix the orchestrator passes for episode e
EpisodePath(e) == <<"episode_">> \o Fmt03d(e) \o <<"/">>

\* the payloads of POST /assemble for episode e
RequestsOf(e) ==
  [ episode_number    : {e},
    images_bucket     : {"bass-ic-images"},
    images_path       : {EpisodePath(e)},
    audio_bucket      : {"bass-ic-audio"},
    audio_path        : {EpisodePath(e)},
    output_bucket     : {"bass-ic-videos"},
    output_filename   : {Filenames[e]},
    total_scenes      : 0 .. MaxScenes,
    duration_per_scene: Durations,
    fps               : FrameRates,
    resolution        : Resolutions ]

Requests == RequestsOf(1)

AnyRequest == CHOOSE r \in Requests : TRUE

\* a blob store holding the images in imgs and an audio clip of durs[i]
\* seconds for every i with durs[i] > 0
EpisodeStore(e, imgs, durs) ==
  LET r == CHOOSE q \in RequestsOf(e) : TRUE
      keys == {ImageKey(r, i) : i \in imgs}
              \cup {AudioKey(r, i) : i \in {n \in SceneIndexes : durs[n] > 0}}
  IN [k \in keys |->
        IF k[1] = r.images_bucket
        THEN ImageContent(CHOOSE i \in imgs : ImageKey(r, i) = k)
        ELSE LET i == CHOOSE n \in SceneIndexes : AudioKey(r, n) = k
             IN AudioContent(i, durs[i])]

InitialStore(imgs, durs) == EpisodeStore(1, imgs, durs)

\* no job is running, nothing is on the local disk
AssemblerIdle ==
  /\ fs = << >>
  /\ dirs = {}
  /\ pc = [j \in Threads |-> "idle"]
  /\ data = [j \in Threads |-> NoData]
  /\ tmpdir = [j \in Threads |-> NoDir]
  /\ idx = [j \in Threads |-> 0]
  /\ calls = [j \in Threads |-> << >>]
  /\ exc = [j \in Threads |-> NoExc]
  /\ resp = [j \in Threads |-> << >>]
  /\ trailing \in 0 .. TrailFrames
  /\ trace = << >>
  /\ prev = NoRun

----------------------------------------------------------------------------
(* Leaving the handler *)

\* variant: the scratch files are left on disk
FilesKept(d, files) == files

\* TemporaryDirectory.__exit__: remove the directory tree rooted at d
FilesOutside(d, files) == [p \in {q \in DOMAIN files : q[1] # d} |-> files[p]]
DirsOutside(d, ds) == {x \in ds : x[1] # d}

\* Flask's answer to an exception that leaves the view function
InternalServerError == [code |-> 500, body |-> [html |-> "Internal Server Error"]]

\* variant: the failing step is caught and tried again
RaiseRetry(j, e) ==
  UNCHANGED <<store, fs, dirs, pc, data, tmpdir, idx, exc, resp>>

\* an exception propagates out of the with block and out of assemble_video
Raise(j, e) ==
  /\ pc' = [pc EXCEPT ![j] = "failed"]
  /\ exc' = [exc EXCEPT ![j] = e]
  /\ resp' = [resp EXCEPT ![j] = Append(@, InternalServerError)]
  /\ fs' = FilesOutside(tmpdir[j], fs)
  /\ dirs' = DirsOutside(tmpdir[j], dirs)
  /\ tmpdir' = [tmpdir EXCEPT ![j] = NoDir]
  /\ UNCHANGED <<store, data, idx>>

\* a return statement inside the with block
Return(j, r, final, files) ==
  /\ pc' = [pc EXCEPT ![j] = final]
  /\ resp' = [resp EXCEPT ![j] = Append(@, r)]
  /\ fs' = FilesOutside(tmpdir[j], files)
  /\ dirs' = DirsOutside(tmpdir[j], dirs)
  /\ tmpdir' = [tmpdir EXCEPT ![j] = NoDir]
  /\ UNCHANGED <<data, idx, exc>>

----------------------------------------------------------------------------
(* assemble_video: request entry and the Asset Fetcher loops *)

\* one external call: what was called, on what, whether it succeeded, and
\* the captured stderr of a failed encoder run
CallWith(op, target, ok, stderr) ==
  [op |-> op, target |-> target, ok |-> ok, stderr |-> stderr]
Call(op, target, ok) == CallWith(op, target, ok, "")

\* blob.download_to_filename raises NotFound for a blob that does not exist
NotFound(key) == [type |-> "NotFound", blob |-> key]

\* variant: every job works in the same fixed directory
FreshDirFixed(ds) == DirNames[1]

\* tempfile.TemporaryDirectory(): a directory name that does not exist yet
\* (the first free one; which name it is makes no difference to the job)
FreshDir(ds) ==
  LET free == {n \in 1 .. Len(DirNames) : <<DirNames[n]>> \notin ds}
  IN DirNames[CHOOSE n \in free : \A m \in free : n <= m]

\* a new POST /assemble with a payload of R enters the handler on a free thread
RequestFrom(j, R) ==
  /\ pc[j] = "idle"
  /\ \E r \in R : data' = [data EXCEPT ![j] = r]
  /\ LET d == FreshDir(dirs)
     IN /\ tmpdir' = [tmpdir EXCEPT ![j] = d]
        /\ dirs' = dirs \cup {<<d>>, ImagesDir(d)}
  /\ pc' = [pc EXCEPT ![j] = "fetch_images"]
  /\ idx' = [idx EXCEPT ![j] = 0]
  /\ UNCHANGED <<store, fs, calls, exc, resp>>

Request(j) == RequestFrom(j, Requests)

\* the response has gone out and the thread is free for the next request
Release(j) ==
  /\ pc[j] \in {"done", "failed"}
  /\ pc' = [pc EXCEPT ![j] = "idle"]
  /\ data' = [data EXCEPT ![j] = NoData]
  /\ idx' = [idx EXCEPT ![j] = 0]
  /\ calls' = [calls EXCEPT ![j] = << >>]
  /\ exc' = [exc EXCEPT ![j] = NoExc]
  /\ resp' = [resp EXCEPT ![j] = << >>]
  /\ UNCHANGED <<store, fs, dirs, tmpdir>>

\* variant: a missing image is skipped instead of ending the job
DownloadImageTolerant(j) ==
  /\ pc[j] = "fetch_images"
  /\ idx[j] < data[j].total_scenes
  /\ LET key == ImageKey(data[j], idx[j])
     IN /\ calls' = [calls EXCEPT ![j] =
                       Append(@, Call("download", key, key \in DOMAIN store))]
        /\ fs' = IF key \in DOMAIN store
                 THEN (LocalImage(tmpdir[j], idx[j]) :> store[key]) @@ fs
                 ELSE fs
        /\ idx' = [idx EXCEPT ![j] = @ + 1]
        /\ UNCHANGED <<store, dirs, pc, data, tmpdir, exc, resp>>

\* one iteration of: for i in range(total_scenes): download scene i
DownloadImage(j) ==
  /\ pc[j] = "fetch_images"
  /\ idx[j] < data[j].total_scenes
  /\ LET key == ImageKey(data[j], idx[j])
     IN IF key \in DOMAIN store
        THEN /\ calls' = [calls EXCEPT ![j] = Append(@, Call("download", key, TRUE))]
             /\ fs' = (LocalImage(tmpdir[j], idx[j]) :> store[key]) @@ fs
             /\ idx' = [idx EXCEPT ![j] = @ + 1]
             /\ UNCHANGED <<store, dirs, pc, data, tmpdir, exc, resp>>
        ELSE /\ calls' = [calls EXCEPT ![j] = Append(@, Call("download", key, FALSE))]
             /\ Raise(j, NotFound(key))

\* variant: after the image loop the handler waits and never moves on
ImagesDoneWaits(j) ==
  /\ pc[j] = "fetch_images"
  /\ idx[j] >= data[j].total_scenes
  /\ UNCHANGED <<store, fs, dirs, pc, data, tmpdir, idx, calls, exc, resp>>

\* the image loop is exhausted: audio_dir.mkdir() and on to the audio loop
ImagesDone(j) ==
  /\ pc[j] = "fetch_images"
  /\ idx[j] >= data[j].total_scenes
  /\ dirs' = dirs \cup {AudioDir(tmpdir[j])}
  /\ pc' = [pc EXCEPT ![j] = "fetch_audio"]
  /\ idx' = [idx EXCEPT ![j] = 0]
  /\ UNCHANGED <<store, fs, data, tmpdir, calls, exc, resp>>

\* one iteration of: for i in range(total_scenes): download narration i
DownloadAudio(j) ==
  /\ pc[j] = "fetch_audio"
  /\ idx[j] < data[j].total_scenes
  /\ LET key == AudioKey(data[j], idx[j])
     IN IF key \in DOMAIN store
        THEN /\ calls' = [calls EXCEPT ![j] = Append(@, Call("download", key, TRUE))]
             /\ fs' = (LocalAudio(tmpdir[j], idx[j]) :> store[key]) @@ fs
             /\ idx' = [idx EXCEPT ![j] = @ + 1]
             /\ UNCHANGED <<store, dirs, pc, data, tmpdir, exc, resp>>
        ELSE /\ calls' = [calls EXCEPT ![j] = Append(@, Call("download", key, FALSE))]
             /\ Raise(j, NotFound(key))

\* variant: the edit list is not written before the audio is merged
AfterFetchSkipsTimeline == "audio_list"

\* the stage that follows the Asset Fetcher
AfterFetch == "timeline"

\* the audio loop is exhausted: all assets downloaded
AudioDone(j) ==
  /\ pc[j] = "fetch_audio"
  /\ idx[j] >= data[j].total_scenes
  /\ pc' = [pc EXCEPT ![j] = AfterFetch]
  /\ UNCHANGED <<store, fs, dirs, data, tmpdir, idx, calls, exc, resp>>

----------------------------------------------------------------------------
(* Timeline Builder and Audio Concatenator *)

FileLine(path) == [directive |-> "file", path |-> path]
DurationLine(d) == [directive |-> "duration", seconds |-> d]
TextFile(lines) == [type |-> "txt", lines |-> lines]

\* the lines written by: for i in range(n): file line, duration line
RECURSIVE SceneLines(_, _, _)
SceneLines(n, images_dir, d) ==
  IF n <= 0 THEN << >>
  ELSE SceneLines(n - 1, images_dir, d)
       \o << FileLine(images_dir \o SceneName(n - 1)), DurationLine(d) >>

\* variant: the last image is not repeated
ConcatLinesNoRepeat(r, images_dir) ==
  SceneLines(r.total_scenes, images_dir, r.duration_per_scene)

\* the content of concat.txt, the last image repeated without a duration
ConcatLines(r, images_dir) ==
  SceneLines(r.total_scenes, images_dir, r.duration_per_scene)
  \o << FileLine(images_dir \o SceneName(r.total_scenes - 1)) >>

\* variant: the list stops one clip short
AudioListLinesShort(n, audio_dir) ==
  [i \in 1 .. n - 1 |-> FileLine(audio_dir \o NarrationName(i - 1))]

\* the content of audio_list.txt
RECURSIVE AudioListLines(_, _)
AudioListLines(n, audio_dir) ==
  IF n <= 0 THEN << >>
  ELSE AudioListLines(n - 1, audio_dir)
       \o << FileLine(audio_dir \o NarrationName(n - 1)) >>

WriteConcat(j) ==
  /\ pc[j] = "timeline"
  /\ fs' = (ConcatFile(tmpdir[j]) :>
              TextFile(ConcatLines(data[j], ImagesDir(tmpdir[j])))) @@ fs
  /\ pc' = [pc EXCEPT ![j] = "audio_list"]
  /\ UNCHANGED <<store, dirs, data, tmpdir, idx, calls, exc, resp>>

WriteAudioList(j) ==
  /\ pc[j] = "audio_list"
  /\ fs' = (AudioListFile(tmpdir[j]) :>
              TextFile(AudioListLines(data[j].total_scenes, AudioDir(tmpdir[j])))) @@ fs
  /\ pc' = [pc EXCEPT ![j] = "audio_concat"]
  /\ UNCHANGED <<store, dirs, data, tmpdir, idx, calls, exc, resp>>

\* ffmpeg's concat demuxer: a file line opens an entry, a duration line
\* sets the duration of the entry before it
RECURSIVE EditList(_)
EditList(lines) ==
  IF lines = << >> THEN << >>
  ELSE LET init == EditList(SubSeq(lines, 1, Len(lines) - 1))
           last == lines[Len(lines)]
       IN IF last.directive = "file"
          THEN Append(init, [path |-> last.path, duration |-> << >>])
          ELSE IF init = << >> THEN init
          ELSE [init EXCEPT ![Len(init)].duration = <<last.seconds>>]

\* stream copy of the listed clips, one after the other
RECURSIVE JoinClips(_, _)
JoinClips(entries, files) ==
  IF entries = << >> THEN << >>
  ELSE JoinClips(SubSeq(entries, 1, Len(entries) - 1), files)
       \o files[entries[Len(entries)].path].samples

\* the concat demuxer needs at least one entry and every listed file
Readable(entries, files) ==
  /\ entries # << >>
  /\ \A n \in 1 .. Len(entries) : entries[n].path \in DOMAIN files

CalledProcessError(cmd) == [type |-> "CalledProcessError", cmd |-> cmd]

\* variant: the merge re-encodes and ends the track with a sample of padding
AudioConcatPadded(j) ==
  /\ pc[j] = "audio_concat"
  /\ LET d == tmpdir[j]
         entries == EditList(fs[AudioListFile(d)].lines)
     IN \E ok \in BOOLEAN :
          /\ ok => Readable(entries, fs)
          /\ calls' = [calls EXCEPT ![j] = Append(@, Call("audio_concat", FullAudio(d), ok))]
          /\ IF ok
             THEN /\ fs' = (FullAudio(d) :>
                              [type |-> "mp3",
                               samples |-> JoinClips(entries, fs) \o << <<"pad", 0>> >>]) @@ fs
                  /\ pc' = [pc EXCEPT ![j] = "encode"]
                  /\ UNCHANGED <<store, dirs, data, tmpdir, idx, exc, resp>>
             ELSE Raise(j, CalledProcessError("audio_concat"))

\* subprocess.run(audio_concat_cmd, check=True, capture_output=True)
AudioConcat(j) ==
  /\ pc[j] = "audio_concat"
  /\ LET d == tmpdir[j]
         entries == EditList(fs[AudioListFile(d)].lines)
     IN \E ok \in BOOLEAN :
          /\ ok => Readable(entries, fs)
          /\ calls' = [calls EXCEPT ![j] = Append(@, Call("audio_concat", FullAudio(d), ok))]
          /\ IF ok
             THEN /\ fs' = (FullAudio(d) :>
                              [type |-> "mp3", samples |-> JoinClips(entries, fs)]) @@ fs
                  /\ pc' = [pc EXCEPT ![j] = "encode"]
                  /\ UNCHANGED <<store, dirs, data, tmpdir, idx, exc, resp>>
             ELSE Raise(j, CalledProcessError("audio_concat"))

----------------------------------------------------------------------------
(* Muxer/Encoder *)

\* variant: the command without -shortest
FfmpegCmdNoShortest(d, r, width, height) ==
  [ concat   |-> ConcatFile(d),
    audio    |-> FullAudio(d),
    scale    |-> <<width, height>>,
    fps      |-> r.fps,
    shortest |-> FALSE,
    output   |-> OutputVideo(d, r) ]

\* ffmpeg_cmd, reduced to the arguments that decide the output
FfmpegCmd(d, r, width, height) ==
  [ concat   |-> ConcatFile(d),
    audio    |-> FullAudio(d),
    scale    |-> <<width, height>>,
    fps      |-> r.fps,
    shortest |-> TRUE,
    output   |-> OutputVideo(d, r) ]

\* the seconds the duration lines of an edit list add up to
RECURSIVE ListedSeconds(_)
ListedSeconds(entries) ==
  IF entries = << >> THEN 0
  ELSE ListedSeconds(SubSeq(entries, 1, Len(entries) - 1))
       + (IF entries[Len(entries)].duration = << >> THEN 0
          ELSE entries[Len(entries)].duration[1])

\* frames of the encoded file: the fps filter resamples the timeline to
\* cmd.fps, the entry without a duration adds trail frames, and -shortest
\* ends the output with the shorter of the two streams
EncodedFrames(cmd, files, trail) ==
  LET video == ListedSeconds(EditList(files[cmd.concat].lines)) * cmd.fps + trail
      audio == Len(files[cmd.audio].samples) * cmd.fps
  IN IF cmd.shortest THEN Min(video, audio) ELSE Max(video, audio)

VideoContent(cmd, frames, complete) ==
  [ type |-> "mp4", frames |-> frames, fps |-> cmd.fps, scale |-> cmd.scale,
    complete |-> complete, size |-> frames * (2 ^ 14) ]

\* what ffmpeg may leave behind when it exits with an error
LeftBehind(cmd, files) ==
  { files, (cmd.output :> VideoContent(cmd, 0, FALSE)) @@ files }

\* variant: the diagnostic text is not passed on
EncodeErrorResponseNoDetails(stderr) ==
  [code |-> 500, body |-> [error |-> "Video assembly failed"]]

\* jsonify({'error': 'Video assembly failed', 'details': result.stderr}), 500
EncodeErrorResponse(stderr) ==
  [code |-> 500, body |-> [error |-> "Video assembly failed", details |-> stderr]]

\* variant: the return code is not checked and the handler goes on to upload
EncodeFailedIgnored(j, stderr, files) ==
  /\ fs' = files
  /\ pc' = [pc EXCEPT ![j] = "publish"]
  /\ UNCHANGED <<store, dirs, data, tmpdir, idx, exc, resp>>

\* if result.returncode != 0: return the error response
EncodeFailed(j, stderr, files) ==
  /\ Return(j, EncodeErrorResponse(stderr), "failed", files)
  /\ UNCHANGED store

ValueError == [type |-> "ValueError"]

\* width, height = resolution.split('x'); subprocess.run(ffmpeg_cmd, ...)
Encode(j) ==
  /\ pc[j] = "encode"
  /\ LET d == tmpdir[j]
         parts == SplitX(data[j].resolution)
     IN IF Len(parts) # 2
        THEN /\ Raise(j, ValueError)
             /\ UNCHANGED calls
        ELSE LET cmd == FfmpegCmd(d, data[j], parts[1], parts[2])
             IN \E ok \in BOOLEAN :
                  /\ ok => /\ cmd.audio \in DOMAIN fs
                           /\ Readable(EditList(fs[cmd.concat].lines), fs)
                  /\ IF ok
                     THEN /\ calls' = [calls EXCEPT ![j] =
                                         Append(@, Call("encode", cmd.output, TRUE))]
                          /\ fs' = (cmd.output :>
                                    VideoContent(cmd, EncodedFrames(cmd, fs, trailing), TRUE)) @@ fs
                          /\ pc' = [pc EXCEPT ![j] = "publish"]
                          /\ UNCHANGED <<store, dirs, data, tmpdir, idx, exc, resp>>
                     ELSE \E stderr \in Diagnostics :
                            \E files \in LeftBehind(cmd, fs) :
                              /\ calls' = [calls EXCEPT ![j] =
                                    Append(@, CallWith("encode", cmd.output, FALSE, stderr))]
                              /\ EncodeFailed(j, stderr, files)

----------------------------------------------------------------------------
(* Result Publisher *)

\* round(size / (1024 * 1024), 2), in hundredths of a megabyte; Python
\* rounds an exact tie to the even neighbour
SizeMb(size) ==
  LET q == (size * 100) \div 1048576
      rem == (size * 100) % 1048576
  IN IF 2 * rem > 1048576 THEN q + 1
     ELSE IF 2 * rem = 1048576 THEN q + (q % 2)
     ELSE q

\* variant: the reported URL leaves out the final/ prefix of the blob name
VideoUrlNoPrefix(r) == <<"gs://", r.output_bucket, "/", r.output_filename>>

\* f"gs://{output_bucket}/final/{output_filename}"
VideoUrl(r) == <<"gs://", r.output_bucket, "/", "final/", r.output_filename>>

\* the success payload (the wall-clock time is left out of the model)
SuccessResponse(r, size) ==
  [code |-> 200,
   body |-> [status |-> "success", video_url |-> VideoUrl(r),
             video_size_mb |-> SizeMb(size)]]

UploadError(key) == [type |-> "UploadError", blob |-> key]
FileNotFoundError(path) == [type |-> "FileNotFoundError", path |-> path]

\* variant: an output blob that exists already is reported without an upload
PublishSkipsExisting(j) ==
  /\ pc[j] = "publish"
  /\ LET out == OutputVideo(tmpdir[j], data[j])
         key == OutputKey(data[j])
     IN IF key \in DOMAIN store
        THEN /\ Return(j, SuccessResponse(data[j], store[key].size), "done", fs)
             /\ UNCHANGED <<store, calls>>
        ELSE \E ok \in BOOLEAN :
               /\ calls' = [calls EXCEPT ![j] = Append(@, Call("upload", key, ok))]
               /\ IF ok
                  THEN /\ store' = (key :> fs[out]) @@ store
                       /\ Return(j, SuccessResponse(data[j], store'[key].size), "done", fs)
                  ELSE Raise(j, UploadError(key))

\* output_blob.upload_from_filename, output_blob.size, the final return
Publish(j) ==
  /\ pc[j] = "publish"
  /\ LET out == OutputVideo(tmpdir[j], data[j])
         key == OutputKey(data[j])
     IN IF out \notin DOMAIN fs
        THEN /\ Raise(j, FileNotFoundError(out))
             /\ UNCHANGED calls
        ELSE \E ok \in BOOLEAN :
               /\ calls' = [calls EXCEPT ![j] = Append(@, Call("upload", key, ok))]
               /\ IF ok
                  THEN /\ store' = (key :> fs[out]) @@ store
                       /\ Return(j, SuccessResponse(data[j], store'[key].size), "done", fs)
                  ELSE Raise(j, UploadError(key))

----------------------------------------------------------------------------
(* The Cloud Run image generator (cloud_run/image_generator/main.py): the  *)
(* module-level globals of one process and the request threads running     *)
(* generate_image, and with it initialize_services, step by step           *)

GenThreads == {1, 2}
None == "None"
NoJson == [json |-> FALSE]

\* the payloads of POST /generate-image for the scenes ns of episode e
GenRequestsOf(e, ns) ==
  [json : {TRUE}, episode_number : {e}, scene_number : ns, pose_id : {0, 1}]

\* the generator process before its first request
GeneratorCold ==
  /\ vertex_initialized = FALSE
  /\ model = None
  /\ storage_client = None
  /\ character_profile = None
  /\ generation_rules = None
  /\ gpc = [t \in GenThreads |-> "idle"]
  /\ greq = [t \in GenThreads |-> NoJson]
  /\ gresp = [t \in GenThreads |-> << >>]
  /\ initRuns = 0
  /\ generated = {}

\* the other services are idle
FunctionsIdle ==
  /\ ncall = << >>
  /\ fcall = << >>
  /\ ppc = "idle"
  /\ script_data = [idle |-> TRUE]
  /\ answers = << >>
  /\ enhanced_shots = << >>
  /\ presp = << >>
  /\ mpc = "idle"
  /\ pose_i = 1
  /\ successful = 0
  /\ failed = 0
  /\ attempted = << >>
  /\ uploaded = {}

\* ... and the notification service runs without a webhook
ServicesIdle ==
  /\ FunctionsIdle
  /\ SLACK_WEBHOOK_URL = None

\* the handler of thread t moves on to position p
GenGoto(t, p) ==
  /\ gpc' = [gpc EXCEPT ![t] = p]
  /\ UNCHANGED gresp

\* the handler of thread t returns response r
GenRespond(t, r) ==
  /\ gpc' = [gpc EXCEPT ![t] = "sent"]
  /\ gresp' = [gresp EXCEPT ![t] = <<r>>]

\* jsonify({'error': str(e), 'scene_number': scene_num}), 500
GenErrorResponse(r, e) ==
  [code |-> 500, body |-> [error |-> e, scene_number |-> r.scene_number]]

\* a POST /generate-image with a payload of R enters generate_image
GenRequest(t, R) ==
  /\ gpc[t] = "idle"
  /\ \E r \in R : greq' = [greq EXCEPT ![t] = r]
  /\ GenGoto(t, "initialize")
  /\ UNCHANGED <<store, generated, initRuns, genGlobals>>

\* variant: the flag is set on entry to the body, before the clients exist
CheckInitializedFlagFirst(t) ==
  /\ gpc[t] = "initialize"
  /\ IF vertex_initialized
     THEN GenGoto(t, "parse") /\ UNCHANGED <<initRuns, vertex_initialized>>
     ELSE /\ GenGoto(t, "init_vertex")
          /\ initRuns' = initRuns + 1
          /\ vertex_initialized' = TRUE
  /\ UNCHANGED <<store, generated, greq, model, storage_client,
                 character_profile, generation_rules>>

\* if _vertex_initialized: return
CheckInitialized(t) ==
  /\ gpc[t] = "initialize"
  /\ IF vertex_initialized
     THEN GenGoto(t, "parse") /\ UNCHANGED initRuns
     ELSE GenGoto(t, "init_vertex") /\ initRuns' = initRuns + 1
  /\ UNCHANGED <<store, generated, greq, genGlobals>>

\* vertexai.init(...); _model = GenerativeModel(...)
InitVertex(t) ==
  /\ gpc[t] = "init_vertex"
  /\ \/ /\ model' = "GenerativeModel"
        /\ GenGoto(t, "init_storage")
     \/ /\ initRuns < MaxInitRuns
        /\ GenRespond(t, InternalServerError)
        /\ UNCHANGED model
  /\ UNCHANGED <<store, generated, initRuns, greq, vertex_initialized,
                 storage_client, character_profile, generation_rules>>

\* _storage_client = storage.Client(project=PROJECT_ID)
InitStorage(t) ==
  /\ gpc[t] = "init_storage"
  /\ \/ /\ storage_client' = "storage.Client"
        /\ GenGoto(t, "load_profile")
     \/ /\ initRuns < MaxInitRuns
        /\ GenRespond(t, InternalServerError)
        /\ UNCHANGED storage_client
  /\ UNCHANGED <<store, generated, initRuns, greq, vertex_initialized,
                 model, character_profile, generation_rules>>

\* what a guarded load leaves in its global: the parsed template, the old
\* value when the blob does not exist, None when the load raised
Loaded(old, outcome) ==
  CASE outcome = "loaded" -> "json"
    [] outcome = "absent" -> old
    [] OTHER -> None

LoadOutcomes == {"loaded", "absent", "raised"}

\* try: ... _character_profile = json.loads(...) except: _character_profile = None
LoadProfile(t, outcomes) ==
  /\ gpc[t] = "load_profile"
  /\ \E o \in outcomes : character_profile' = Loaded(character_profile, o)
  /\ GenGoto(t, "load_rules")
  /\ UNCHANGED <<store, generated, initRuns, greq, vertex_initialized,
                 model, storage_client, generation_rules>>

\* try: ... _generation_rules = json.loads(...) except: _generation_rules = None
LoadRules(t, outcomes) ==
  /\ gpc[t] = "load_rules"
  /\ \E o \in outcomes : generation_rules' = Loaded(generation_rules, o)
  /\ GenGoto(t, "set_flag")
  /\ UNCHANGED <<store, generated, initRuns, greq, vertex_initialized,
                 model, storage_client, character_profile>>

\* _vertex_initialized = True
SetInitialized(t) ==
  /\ gpc[t] = "set_flag"
  /\ vertex_initialized' = TRUE
  /\ GenGoto(t, "parse")
  /\ UNCHANGED <<store, generated, initRuns, greq, model, storage_client,
                 character_profile, generation_rules>>

\* Python format spec 02d for a pose number
Fmt02d(i) == ZeroPad(Digits(i), 2)

\* f"character_sheet/pose_{pose_id:02d}.png" in bucket bass-ic-refs
PoseBlobName(p) == <<"character_sheet/", "pose_">> \o Fmt02d(p) \o <<".png">>
PoseKey(p) == <<"bass-ic-refs", PoseBlobName(p)>>

\* the reference bucket holding the character sheet poses ps
RefStore(ps) ==
  [k \in {PoseKey(p) : p \in ps} |->
     [type |-> "png", pose |-> CHOOSE p \in ps : PoseKey(p) = k]]

\* variant: the scene number is padded to two digits, like the pose number
GenImageBlobNameTwoDigits(e, n) ==
  <<"episode_">> \o Fmt03d(e) \o <<"/", "scene_">> \o Fmt02d(n) \o <<".png">>

\* f"episode_{episode_number:03d}/scene_{scene_num:03d}.png" in bass-ic-images
GenImageBlobName(e, n) ==
  <<"episode_">> \o Fmt03d(e) \o <<"/", "scene_">> \o Fmt03d(n) \o <<".png">>
GenImageKey(e, n) == <<"bass-ic-images", GenImageBlobName(e, n)>>

\* request_json = request.get_json(silent=True); if not request_json: 400
Parse(t) ==
  /\ gpc[t] = "parse"
  /\ IF greq[t].json
     THEN GenGoto(t, "reference")
     ELSE GenRespond(t, [code |-> 400, body |-> [error |-> "No JSON payload"]])
  /\ UNCHANGED <<store, generated, initRuns, greq, genGlobals>>

\* ref_blob.exists(), the fall-back to pose_00, download_as_bytes()
Reference(t) ==
  /\ gpc[t] = "reference"
  /\ LET want == PoseKey(greq[t].pose_id)
         ref == IF want \in DOMAIN store THEN want ELSE PoseKey(0)
     IN IF storage_client = None
        THEN GenRespond(t, GenErrorResponse(greq[t], "AttributeError"))
        ELSE IF ref \in DOMAIN store
             THEN GenGoto(t, "generate")
             ELSE GenRespond(t, GenErrorResponse(greq[t], "NotFound"))
  /\ UNCHANGED <<store, generated, initRuns, greq, genGlobals>>

\* _model.generate_content(...) and the search for an inline image
Generate(t) ==
  /\ gpc[t] = "generate"
  /\ IF model = None
     THEN GenRespond(t, GenErrorResponse(greq[t], "AttributeError"))
     ELSE \/ GenGoto(t, "upload")
          \/ GenRespond(t, [code |-> 500, body |-> [error |-> "No image generated"]])
          \/ GenRespond(t, GenErrorResponse(greq[t], "generate_content"))
  /\ UNCHANGED <<store, generated, initRuns, greq, genGlobals>>

\* jsonify({'status': 'success', 'image_url': ..., 'scene_number': ...}), 200
GenSuccessResponse(r) ==
  [code |-> 200,
   body |-> [status |-> "success",
             image_url |-> <<"gs://", "bass-ic-images", "/">>
                             \o GenImageBlobName(r.episode_number, r.scene_number),
             scene_number |-> r.scene_number]]

\* output_blob.upload_from_string(image_bytes, ...) and the success response
Upload(t) ==
  /\ gpc[t] = "upload"
  /\ LET r == greq[t]
     IN \/ /\ store' = (GenImageKey(r.episode_number, r.scene_number)
                          :> ImageContent(r.scene_number)) @@ store
           /\ generated' = generated \cup {<<"image", r.episode_number, r.scene_number>>}
           /\ GenRespond(t, GenSuccessResponse(r))
        \/ /\ GenRespond(t, GenErrorResponse(r, "upload_from_string"))
           /\ UNCHANGED <<store, generated>>
  /\ UNCHANGED <<initRuns, greq, genGlobals>>

\* the response has gone out and the thread is free for the next request
GenRelease(t) ==
  /\ gpc[t] = "sent"
  /\ gpc' = [gpc EXCEPT ![t] = "idle"]
  /\ greq' = [greq EXCEPT ![t] = NoJson]
  /\ gresp' = [gresp EXCEPT ![t] = << >>]
  /\ UNCHANGED <<store, generated, initRuns, genGlobals>>

\* the steps of generate_image between its request and its response, the
\* template loads ending in one of outcomes
GenStepWith(t, outcomes) ==
  \/ CheckInitialized(t)
  \/ InitVertex(t)
  \/ InitStorage(t)
  \/ LoadProfile(t, outcomes)
  \/ LoadRules(t, outcomes)
  \/ SetInitialized(t)
  \/ Parse(t)
  \/ Reference(t)
  \/ Generate(t)
  \/ Upload(t)

GenStep(t) == GenStepWith(t, LoadOutcomes)

\* two request threads of one generator process; pose_01 is not on the sheet
InitGenerator ==
  /\ store = RefStore({0})
  /\ AssemblerIdle
  /\ GeneratorCold
  /\ ServicesIdle

NextGenerator ==
  /\ \E t \in GenThreads :
       \/ GenRequest(t, GenRequestsOf(1, {0}) \cup {NoJson})
       \/ GenStep(t)
       \/ GenRelease(t)
  /\ UNCHANGED <<fs, dirs, pc, data, tmpdir, idx, calls, exc, resp, trailing, historyVars, serviceVars>>

SpecGenerator == InitGenerator /\ [][NextGenerator]_vars

----------------------------------------------------------------------------
(* The image generator function (cloud_functions/image_generator/main.py): *)
(* its clients are created when the module is loaded; one call of the      *)
(* function is one step                                                     *)

Poses == {0, 1}
FnOutcomes == {"image", "no_image", "generate_raised", "upload_raised"}

\* {'error': str(e), 'scene_number': scene_num}, 500
FnErrorResponse(r, e) ==
  [code |-> 500, body |-> [error |-> e, scene_number |-> r.scene_number]]

\* the reference blob the handler downloads for request r
FnReference(r) ==
  IF PoseKey(r.pose_id) \in DOMAIN store THEN PoseKey(r.pose_id) ELSE PoseKey(0)

\* the response of generate_image to request r when the model call and the
\* upload end as outcome says
FnResponse(r, outcome) ==
  CASE ~r.json -> [code |-> 400, body |-> [error |-> "No JSON payload"]]
    [] r.json /\ FnReference(r) \notin DOMAIN store -> FnErrorResponse(r, "NotFound")
    [] r.json /\ FnReference(r) \in DOMAIN store /\ outcome = "no_image" ->
         [code |-> 500, body |-> [error |-> "No image generated"]]
    [] r.json /\ FnReference(r) \in DOMAIN store /\ outcome = "image" ->
         GenSuccessResponse(r)
    [] OTHER -> FnErrorResponse(r, outcome)

\* variant: the upload is made before the answer of the model is looked at
GenerateImageFnUploadFirst(R) ==
  /\ fcall = << >>
  /\ \E r \in R : \E outcome \in FnOutcomes :
       LET answer == FnResponse(r, outcome)
       IN /\ fcall' = << [req |-> r,
                          ref |-> IF r.json THEN <<FnReference(r)>> ELSE << >>,
                          resp |-> answer] >>
          /\ IF answer.code = 200 \/ (r.json /\ outcome = "no_image")
             THEN store' = (GenImageKey(r.episode_number, r.scene_number)
                              :> ImageContent(r.scene_number)) @@ store
             ELSE UNCHANGED store
          /\ IF answer.code = 200
             THEN generated' = generated
                                 \cup {<<"image", r.episode_number, r.scene_number>>}
             ELSE UNCHANGED generated
  /\ UNCHANGED <<genGlobals, gpc, greq, gresp, initRuns>>

\* one call of generate_image with a payload of R
GenerateImageFn(R) ==
  /\ fcall = << >>
  /\ \E r \in R : \E outcome \in FnOutcomes :
       LET answer == FnResponse(r, outcome)
       IN /\ fcall' = << [req |-> r,
                          ref |-> IF r.json THEN <<FnReference(r)>> ELSE << >>,
                          resp |-> answer] >>
          /\ IF answer.code = 200
             THEN /\ store' = (GenImageKey(r.episode_number, r.scene_number)
                                 :> ImageContent(r.scene_number)) @@ store
                  /\ generated' = generated
                                    \cup {<<"image", r.episode_number, r.scene_number>>}
             ELSE UNCHANGED <<store, generated>>
  /\ UNCHANGED <<genGlobals, gpc, greq, gresp, initRuns>>

\* the response has gone out
FnRelease ==
  /\ fcall # << >>
  /\ fcall' = << >>
  /\ UNCHANGED <<store, generatorVars>>

----------------------------------------------------------------------------
(* Both image generators writing the scenes of one episode, with every     *)
(* subset of the two reference poses on the character sheet                *)

ImageRequests == GenRequestsOf(1, SceneIndexes) \cup {NoJson}

InitImages ==
  /\ store \in {RefStore(ps) : ps \in SUBSET Poses}
  /\ AssemblerIdle
  /\ GeneratorCold
  /\ ServicesIdle

NextImages ==
  /\ \/ /\ \/ GenRequest(1, ImageRequests)
           \/ GenStepWith(1, {"loaded"})
           \/ GenRelease(1)
        /\ UNCHANGED fcall
     \/ GenerateImageFn(ImageRequests)
     \/ FnRelease
  /\ UNCHANGED <<parserVars, sheetVars, notifyVars>>
  /\ UNCHANGED <<fs, dirs, pc, data, tmpdir, idx, calls, exc, resp, trailing, historyVars>>

SpecImages == InitImages /\ [][NextImages]_vars

----------------------------------------------------------------------------
(* The scene parser (cloud_functions/scene_parser/main.py): one request at *)
(* a time, one step per model call of the loop over the shots               *)

MaxShots == 2

\* dict.get(k, d)
Get(d, k, default) == IF k \in DOMAIN d THEN d[k] ELSE default

NoScript == [idle |-> TRUE]

\* the shot dicts a script may hold: one with the narration only, one that
\* already carries fields the parser writes
ShotInputs ==
  { [narration |-> "intro"],
    [narration |-> "desk", lighting_notes |-> "dim", pose_id |-> 5,
     ai_reasoning |-> "old"] }

ShotLists == UNION { [1..n -> ShotInputs] : n \in 0..MaxShots }

\* the scripts in the bucket: with a shots list, or without the key
Scripts ==
  { [title |-> "Budget", episode_number |-> 2, shots |-> l] : l \in ShotLists }
    \cup { [title |-> "Budget"] }

\* what reading the script gives: the parsed script, or an exception of
\* download_as_text or json.loads
Downloads == Scripts \cup { [raised |-> "NotFound"], [raised |-> "JSONDecodeError"] }

\* the JSON payloads of a request
ParseRequests ==
  { [json |-> FALSE],
    [json |-> TRUE, bucket |-> "bass-ic-scripts"],
    [json |-> TRUE, file |-> "ep002.json"],
    [json |-> TRUE, bucket |-> "bass-ic-scripts", file |-> "ep002.json"] }

\* the dicts json.loads(response.text) may give
Suggestions ==
  { [camera_preset_id |-> "zoom_in", pose_id |-> 3, lighting_notes |-> "warm",
     reasoning |-> "why"],
    [reasoning |-> "why"],
    [pose_id |-> 7, mood |-> "calm"] }

\* an exception of generate_content, of json.loads(response.text) or of
\* ai_suggestion.get
Failures ==
  { [raised |-> "ServiceUnavailable"], [raised |-> "JSONDecodeError"],
    [raised |-> "AttributeError"] }

ModelOutcomes == Suggestions \cup Failures

AiFields == {"camera_preset_id", "pose_id", "lighting_notes", "ai_reasoning"}

ParseRespond(code, body) ==
  /\ presp' = Append(presp, [code |-> code, body |-> body])
  /\ ppc' = "done"

ParseError(e) == ParseRespond(500, [error |-> e])

EpisodeMetadata(d) ==
  [title |-> Get(d, "title", "Untitled"),
   number |-> Get(d, "episode_number", 1),
   career_type |-> Get(d, "career_type", "unknown")]

\* parse_script_http up to the loop
ParseScript(R) ==
  /\ ppc = "idle"
  /\ \E r \in R, d \in Downloads :
       IF ~r.json
       THEN /\ ParseRespond(400, [error |-> "No JSON payload"])
            /\ UNCHANGED script_data
       ELSE IF "bucket" \notin DOMAIN r \/ "file" \notin DOMAIN r
       THEN /\ ParseRespond(400, [error |-> "Missing bucket or file parameter"])
            /\ UNCHANGED script_data
       ELSE IF d \in Scripts
       THEN /\ script_data' = d
            /\ ppc' = "loop"
            /\ UNCHANGED presp
       ELSE /\ ParseError(d.raised)
            /\ UNCHANGED script_data
  /\ UNCHANGED <<enhanced_shots, answers>>

\* shots = script_data.get('shots', [])
ScriptShots == Get(script_data, "shots", << >>)

\* {**shot, ...}: the keys written after **shot win; the shot's own keys win
EnhancedShotKeepsOwn(shot, ai_suggestion) ==
  [k \in DOMAIN shot \cup AiFields |->
     IF k \in DOMAIN shot THEN shot[k]
     ELSE CASE k = "camera_preset_id" -> Get(ai_suggestion, "camera_preset_id", "static_mid")
            [] k = "pose_id" -> Get(ai_suggestion, "pose_id", 0)
            [] k = "lighting_notes" -> Get(ai_suggestion, "lighting_notes", "")
            [] OTHER -> Get(ai_suggestion, "reasoning", "")]

\* enhanced_shot = {**shot, 'camera_preset_id': ..., ...}
EnhancedShot(shot, ai_suggestion) ==
  [k \in DOMAIN shot \cup AiFields |->
     CASE k = "camera_preset_id" -> Get(ai_suggestion, "camera_preset_id", "static_mid")
       [] k = "pose_id" -> Get(ai_suggestion, "pose_id", 0)
       [] k = "lighting_notes" ->
            Get(ai_suggestion, "lighting_notes", Get(shot, "lighting_notes", ""))
       [] k = "ai_reasoning" -> Get(ai_suggestion, "reasoning", "")
       [] OTHER -> shot[k]]

\* one turn of the loop: the model call for the next shot and the append,
\* or the exception that ends the request
ProcessShot ==
  /\ ppc = "loop"
  /\ Len(enhanced_shots) < Len(ScriptShots)
  /\ \E o \in ModelOutcomes :
       /\ answers' = Append(answers, o)
       /\ IF o \in Suggestions
          THEN /\ enhanced_shots' =
                    Append(enhanced_shots,
                           EnhancedShot(ScriptShots[Len(enhanced_shots) + 1], o))
               /\ UNCHANGED <<ppc, presp>>
          ELSE /\ ParseError(o.raised)
               /\ UNCHANGED enhanced_shots
  /\ UNCHANGED script_data

\* the return after the loop
ParseDone ==
  /\ ppc = "loop"
  /\ Len(enhanced_shots) = Len(ScriptShots)
  /\ ParseRespond(200, [status |-> "success",
                        episode_metadata |-> EpisodeMetadata(script_data),
                        shots |-> enhanced_shots,
                        total_shots |-> Len(enhanced_shots)])
  /\ UNCHANGED <<script_data, enhanced_shots, answers>>

\* the next request starts from fresh locals
ParseRelease ==
  /\ ppc = "done"
  /\ ppc' = "idle"
  /\ script_data' = NoScript
  /\ enhanced_shots' = << >>
  /\ answers' = << >>
  /\ presp' = << >>

InitParser ==
  /\ store = RefStore({0})
  /\ AssemblerIdle
  /\ GeneratorCold
  /\ ServicesIdle

NextParser ==
  /\ \/ ParseScript(ParseRequests)
     \/ ProcessShot
     \/ ParseDone
     \/ ParseRelease
  /\ UNCHANGED <<assemblerVars, trailing, generatorVars, historyVars, fcall, sheetVars,
                 notifyVars>>

SpecParser == InitParser /\ [][NextParser]_vars

----------------------------------------------------------------------------
(* The character sheet generator                                           *)
(* (character_generation/generate_character_sheet.py): one run of main,    *)
(* one step per turn of its loop                                           *)

NumPoses == 20
MaxFailures == 2

\* POSES: the ids are the positions counted from 0
POSES == [k \in 1..NumPoses |-> [id |-> k - 1]]

\* f"metadata/pose_{pose_id:02d}.json" in bucket bass-ic-refs
MetadataBlobName(p) == <<"metadata/", "pose_">> \o Fmt02d(p) \o <<".json">>
MetadataKey(p) == <<"bass-ic-refs", MetadataBlobName(p)>>

\* what one turn of the loop meets: both uploads done, generate_pose
\* returning None (no inline image, or an exception), or an exception of
\* either upload_from_string
PoseOutcomes ==
  {"uploaded", "no_image", "generate_raised", "image_upload_raised",
   "metadata_upload_raised"}

\* the blobs upload_to_gcs has written when the turn ends with outcome o
Written(p, o) ==
  CASE o = "uploaded" ->
         PoseKey(p) :> [type |-> "png", pose |-> p]
           @@ MetadataKey(p) :> [type |-> "json", pose |-> p]
    [] o = "metadata_upload_raised" -> PoseKey(p) :> [type |-> "png", pose |-> p]
    [] OTHER -> << >>

\* main up to the loop
MainStart ==
  /\ mpc = "idle"
  /\ mpc' = "loop"
  /\ successful' = 0
  /\ failed' = 0
  /\ pose_i' = 1
  /\ UNCHANGED <<store, attempted, uploaded>>

\* variant: upload_to_gcs answers True once the image is in the bucket
ProcessPoseCountsImage ==
  /\ mpc = "loop"
  /\ pose_i <= Len(POSES)
  /\ \E o \in PoseOutcomes :
       LET p == POSES[pose_i].id
           w == Written(p, o) IN
       /\ o # "uploaded" => failed < MaxFailures
       /\ attempted' = Append(attempted, p)
       /\ store' = [k \in DOMAIN w \cup DOMAIN store |->
                      IF k \in DOMAIN w THEN w[k] ELSE store[k]]
       /\ uploaded' = uploaded \cup DOMAIN w
       /\ IF o \in {"uploaded", "metadata_upload_raised"}
          THEN successful' = successful + 1 /\ UNCHANGED failed
          ELSE failed' = failed + 1 /\ UNCHANGED successful
  /\ pose_i' = pose_i + 1
  /\ UNCHANGED mpc

\* one turn of the loop: generate_pose, upload_to_gcs, the count, the sleep
ProcessPose ==
  /\ mpc = "loop"
  /\ pose_i <= Len(POSES)
  /\ \E o \in PoseOutcomes :
       LET p == POSES[pose_i].id
           w == Written(p, o) IN
       /\ o # "uploaded" => failed < MaxFailures
       /\ attempted' = Append(attempted, p)
       /\ store' = [k \in DOMAIN w \cup DOMAIN store |->
                      IF k \in DOMAIN w THEN w[k] ELSE store[k]]
       /\ uploaded' = uploaded \cup DOMAIN w
       /\ IF o = "uploaded"
          THEN successful' = successful + 1 /\ UNCHANGED failed
          ELSE failed' = failed + 1 /\ UNCHANGED successful
  /\ pose_i' = pose_i + 1
  /\ UNCHANGED mpc

\* the summary after the loop
MainEnd ==
  /\ mpc = "loop"
  /\ pose_i > Len(POSES)
  /\ mpc' = "done"
  /\ UNCHANGED <<store, pose_i, successful, failed, attempted, uploaded>>

MainStep == MainStart \/ ProcessPose \/ MainEnd

\* the bucket before the run: empty, or holding the sheet of an earlier run
InitSheet ==
  /\ store \in {RefStore({}), RefStore({0, 1})}
  /\ AssemblerIdle
  /\ trailing = 0
  /\ GeneratorCold
  /\ ServicesIdle

NextSheet ==
  /\ MainStep
  /\ UNCHANGED <<fs, dirs, pc, data, tmpdir, idx, calls, exc, resp, trailing,
                 generatorVars, historyVars, fcall, parserVars, notifyVars>>

\* every call of the script returns: a step main can take is taken
SpecSheet ==
  /\ InitSheet
  /\ [][NextSheet]_vars
  /\ WF_vars(NextSheet)

----------------------------------------------------------------------------
(* The notification service (cloud_run/notification_service/main.py): one  *)
(* call of /notify is one step                                              *)

\* os.environ.get("SLACK_WEBHOOK_URL"): unset, set to the empty string, set
Webhooks == {None, "", "https://hooks.slack.com/services/T0/B0/x"}

\* the JSON objects a caller sends: every field may be left out
NotifyData ==
  [title : {"Video Ready", "Render"}, message : {"", "Episode 1 is complete."},
   video_url : {"", "https://drive/ep001"}, status : {"success", "error", "info"}]
    \cup [title : {"Video Ready"}, message : {"Episode 1 is complete."}]
    \cup [message : {"Episode 1 is complete."}, status : {"success", "error"}]
    \cup [video_url : {"https://drive/ep001"}]

\* the bodies of a POST /notify: a JSON object, another JSON value, a body
\* that is no JSON, a body sent without the JSON content type
NotifyRequests ==
  [kind : {"object"}, data : NotifyData]
    \cup { [kind |-> "null"], [kind |-> "list"], [kind |-> "malformed"],
           [kind |-> "not_json_type"] }

\* what requests.post meets: a response with its status code, or an
\* exception before any response
PostOutcomes ==
  { [status |-> 200], [status |-> 404], [status |-> 500],
    [raised |-> "ConnectionError"] }

\* the Block Kit payload
SlackPayload(d) ==
  LET status == Get(d, "status", "info")
      title == Get(d, "title", "Notification")
      emoji == IF status = "success" THEN "check" ELSE "cross"
      head == << [type |-> "header", text |-> <<emoji, title>>],
                 [type |-> "section", text |-> <<Get(d, "message", "")>>] >>
      video_url == Get(d, "video_url", None)
  IN [text |-> <<emoji, title>>,
      blocks |-> IF video_url \notin {None, ""}
                 THEN Append(head, [type |-> "section",
                                    text |-> <<"*Drive Link:*", video_url>>])
                 ELSE head]

\* variant: the status of the webhook's response is not looked at
DeliveredAnyStatus(o) == "status" \in DOMAIN o

\* requests.post returned and response.raise_for_status() did not raise
Delivered(o) == "status" \in DOMAIN o /\ o.status < 400

\* str(e) of the exception the try block caught
PostError(o) == IF "raised" \in DOMAIN o THEN o.raised ELSE "HTTPError"

\* the answers to a body that data = request.json / data.get does not take:
\* a JSON value without .get raises AttributeError outside the try, a body
\* that does not parse is a BadRequest, a body without the JSON content
\* type is None (AttributeError), BadRequest or UnsupportedMediaType
\* depending on the Flask release
RejectCodes(kind) ==
  CASE kind \in {"null", "list"} -> {500}
    [] kind = "malformed" -> {400}
    [] OTHER -> {400, 415, 500}

\* send_notification
SendNotification(R) ==
  /\ ncall = << >>
  /\ \E r \in R, o \in PostOutcomes, c \in {400, 415, 500} :
       ncall' =
         << IF SLACK_WEBHOOK_URL \in {None, ""}
            THEN [req |-> r, posts |-> << >>,
                  resp |-> [code |-> 200,
                            body |-> [status |-> "skipped", reason |-> "no_webhook"]]]
            ELSE IF r.kind # "object"
            THEN [req |-> r, posts |-> << >>,
                  resp |-> [code |-> (IF c \in RejectCodes(r.kind) THEN c
                                      ELSE CHOOSE x \in RejectCodes(r.kind) : TRUE),
                            body |-> [html |-> "error page"]]]
            ELSE [req |-> r,
                  posts |-> << [url |-> SLACK_WEBHOOK_URL,
                                json |-> SlackPayload(r.data), outcome |-> o] >>,
                  resp |-> IF Delivered(o)
                           THEN [code |-> 200, body |-> [status |-> "sent"]]
                           ELSE [code |-> 500, body |-> [error |-> PostError(o)]]] >>
  /\ UNCHANGED SLACK_WEBHOOK_URL

\* the response has gone out
NotifyRelease ==
  /\ ncall # << >>
  /\ ncall' = << >>
  /\ UNCHANGED SLACK_WEBHOOK_URL

InitNotify ==
  /\ store = RefStore({0})
  /\ AssemblerIdle
  /\ GeneratorCold
  /\ FunctionsIdle
  /\ SLACK_WEBHOOK_URL \in Webhooks

NextNotify ==
  /\ \/ SendNotification(NotifyRequests)
     \/ NotifyRelease
  /\ UNCHANGED <<assemblerVars, trailing, generatorVars, historyVars, fcall,
                 parserVars, sheetVars>>

SpecNotify == InitNotify /\ [][NextNotify]_vars

----------------------------------------------------------------------------
(* The audio generator (cloud_functions/audio_generator/main.py); one call *)
(* of the function is one step                                             *)

\* the payloads for the scenes ns of episode e; narration stands for the
\* seconds of speech the text gives, 0 for an empty text
AudioRequestsOf(e, ns, seconds) ==
  [episode_number : {e}, scene_number : ns, narration : seconds]

\* f"episode_{episode_number:03d}/narration_{scene_num:03d}.mp3" in bass-ic-audio
GenAudioBlobName(e, n) ==
  <<"episode_">> \o Fmt03d(e) \o <<"/", "narration_">> \o Fmt03d(n) \o <<".mp3">>
GenAudioKey(e, n) == <<"bass-ic-audio", GenAudioBlobName(e, n)>>

\* generate_audio: 400 without narration, else synthesize and upload; an
\* exception of either call is answered with 500 and leaves no blob
GenerateAudio(R) ==
  /\ \E r \in R :
       IF r.narration = 0
       THEN UNCHANGED <<store, generated>>
       ELSE \/ /\ store' = (GenAudioKey(r.episode_number, r.scene_number)
                               :> AudioContent(r.scene_number, r.narration)) @@ store
               /\ generated' = generated \cup {<<"audio", r.episode_number, r.scene_number>>}
            \/ UNCHANGED <<store, generated>>
  /\ UNCHANGED <<genGlobals, gpc, greq, gresp, initRuns>>

----------------------------------------------------------------------------
(* One thread serving jobs one after the other *)

Init ==
  /\ \E imgs \in SUBSET SceneIndexes :
       \E durs \in [SceneIndexes -> 0 .. MaxClipDur] :
         store = InitialStore(imgs, durs)
  /\ AssemblerIdle
  /\ GeneratorCold
  /\ ServicesIdle

Step(j) ==
  \/ Request(j)
  \/ DownloadImage(j)
  \/ ImagesDone(j)
  \/ DownloadAudio(j)
  \/ AudioDone(j)
  \/ WriteConcat(j)
  \/ WriteAudioList(j)
  \/ AudioConcat(j)
  \/ Encode(j)
  \/ Publish(j)
  \/ Release(j)

Next ==
  /\ \E j \in SeqThreads : Step(j)
  /\ UNCHANGED <<trailing, generatorVars, historyVars, serviceVars>>

Spec == Init /\ [][Next]_vars

----------------------------------------------------------------------------
(* Two threads of the process serving jobs of two episodes at once *)

\* the steps of a job between its request and its response
JobStep(j) ==
  \/ DownloadImage(j)
  \/ ImagesDone(j)
  \/ DownloadAudio(j)
  \/ AudioDone(j)
  \/ WriteConcat(j)
  \/ WriteAudioList(j)
  \/ AudioConcat(j)
  \/ Encode(j)
  \/ Publish(j)

\* payloads for episode e: one second a scene, two frames a second
ConcurrentRequests(e) ==
  {r \in RequestsOf(e) : /\ r.total_scenes >= 1
                         /\ r.duration_per_scene = 1
                         /\ r.fps = 2
                         /\ Len(r.resolution) = 3}

\* the assets of both episodes, each with or without its first image
InitConcurrent ==
  /\ \E m1, m2 \in {SceneIndexes, SceneIndexes \ {0}} :
       store = EpisodeStore(1, m1, [i \in SceneIndexes |-> 1])
                 @@ EpisodeStore(2, m2, [i \in SceneIndexes |-> MaxClipDur])
  /\ AssemblerIdle
  /\ GeneratorCold
  /\ ServicesIdle

\* thread j serves the jobs of episode j
NextConcurrent ==
  /\ \E j \in Threads :
       \/ RequestFrom(j, ConcurrentRequests(j))
       \/ JobStep(j)
       \/ Release(j)
  /\ UNCHANGED <<trailing, generatorVars, historyVars, serviceVars>>

SpecConcurrent == InitConcurrent /\ [][NextConcurrent]_vars

----------------------------------------------------------------------------
(* The three services of one episode side by side: the generators fill the *)
(* buckets while the assembler may be asked for the episode at any time    *)

PipelineRequests ==
  {r \in RequestsOf(1) : /\ r.total_scenes >= 1
                         /\ r.duration_per_scene = 1
                         /\ r.fps = 2
                         /\ Len(r.resolution) = 3}

InitPipeline ==
  /\ store = RefStore({0})
  /\ AssemblerIdle
  /\ GeneratorCold
  /\ ServicesIdle

NextPipeline ==
  \/ /\ \/ GenRequest(1, {r \in GenRequestsOf(1, SceneIndexes) : r.pose_id = 0})
        \/ GenStepWith(1, {"loaded"})
        \/ GenRelease(1)
        \/ GenerateAudio(AudioRequestsOf(1, SceneIndexes, {0, 1}))
     /\ UNCHANGED <<fs, dirs, pc, data, tmpdir, idx, calls, exc, resp, trailing, historyVars, serviceVars>>
  \/ /\ \/ RequestFrom(1, PipelineRequests)
        \/ JobStep(1)
     /\ UNCHANGED <<trailing, generatorVars, historyVars, serviceVars>>

SpecPipeline == InitPipeline /\ [][NextPipeline]_vars

----------------------------------------------------------------------------
(* Vocabulary of the properties *)

Active(j) == pc[j] \notin {"idle", "done", "failed"}

\* the stage of the job state machine a handler position belongs to
Stage(p) ==
  CASE p \in {"fetch_images", "fetch_audio"} -> "FETCHING"
    [] p = "timeline" -> "BUILDING_TIMELINE"
    [] p \in {"audio_list", "audio_concat"} -> "MERGING_AUDIO"
    [] p = "encode" -> "ENCODING"
    [] p = "publish" -> "PUBLISHING"
    [] p = "done" -> "DONE"
    [] p = "failed" -> "FAILED"
    [] OTHER -> "IDLE"

\* the log cs holds a call of kind op with outcome ok
Logged(cs, op, ok) == \E n \in 1 .. Len(cs) : cs[n].op = op /\ cs[n].ok = ok
LoggedAny(cs, op) == \E n \in 1 .. Len(cs) : cs[n].op = op
OkDownloads(cs) == {n \in 1 .. Len(cs) : cs[n].op = "download" /\ cs[n].ok}

Got500(rs) == \E n \in 1 .. Len(rs) : rs[n].code = 500

\* the blobs job r reads, in the order the handler downloads them
DownloadOrder(r) ==
  [n \in 1 .. 2 * r.total_scenes |->
     IF n <= r.total_scenes THEN ImageKey(r, n - 1)
     ELSE AudioKey(r, n - r.total_scenes - 1)]

MissingAssets(r) == {n \in DOMAIN DownloadOrder(r) : DownloadOrder(r)[n] \notin DOMAIN store}

FirstMissing(r) ==
  DownloadOrder(r)[CHOOSE n \in MissingAssets(r) : \A m \in MissingAssets(r) : n <= m]

----------------------------------------------------------------------------
(* C1: a job uploads its output blob only in a step taken after all 2N      *)
(* downloads, the edit list, the audio merge and the encode of that same  *)
(* job succeeded, the uploaded file is a complete encode, the blob store   *)
(* changes only by such an upload, and a job answered with HTTP 500 has    *)
(* made no successful upload.                                              *)
C1_NoPartialPublish ==
  [][ /\ \A j \in Threads :
           /\ (Logged(calls'[j], "upload", TRUE) /\ ~Logged(calls[j], "upload", TRUE))
                => /\ Cardinality(OkDownloads(calls[j])) = 2 * data[j].total_scenes
                   /\ ConcatFile(tmpdir[j]) \in DOMAIN fs
                   /\ Logged(calls[j], "audio_concat", TRUE)
                   /\ Logged(calls[j], "encode", TRUE)
                   /\ ~Logged(calls[j], "encode", FALSE)
                   /\ fs[OutputVideo(tmpdir[j], data[j])].complete
                   /\ store'[OutputKey(data[j])] = fs[OutputVideo(tmpdir[j], data[j])]
           /\ Got500(resp'[j]) => ~Logged(calls'[j], "upload", TRUE)
      /\ store' # store =>
           \E j \in Threads :
             Logged(calls'[j], "upload", TRUE) /\ ~Logged(calls[j], "upload", TRUE)
    ]_vars

\* a job that failed in the encoder was answered with 500 and published nothing
C1_Witness ==
  \E j \in Threads :
    /\ pc[j] = "failed"
    /\ Logged(calls[j], "encode", FALSE)
    /\ Got500(resp[j])
    /\ OutputKey(data[j]) \notin DOMAIN store

(* C2: the stage of a job changes only along FETCHING, BUILDING_TIMELINE,   *)
(* MERGING_AUDIO, ENCODING, PUBLISHING, DONE, or from one of the first     *)
(* five to FAILED (the job is over when its thread is released, and the     *)
(* next job starts at FETCHING); a stage is entered only when the stage    *)
(* before it has produced its result.                                      *)
StageEdges ==
  { <<"FETCHING", "BUILDING_TIMELINE">>, <<"BUILDING_TIMELINE", "MERGING_AUDIO">>,
    <<"MERGING_AUDIO", "ENCODING">>, <<"ENCODING", "PUBLISHING">>,
    <<"PUBLISHING", "DONE">> }
  \cup { <<s, "FAILED">> : s \in {"FETCHING", "BUILDING_TIMELINE", "MERGING_AUDIO",
                                   "ENCODING", "PUBLISHING"} }
  \cup { <<"DONE", "IDLE">>, <<"FAILED", "IDLE">>, <<"IDLE", "FETCHING">> }

C2_StageOrder ==
  [][ \A j \in Threads :
        LET a == Stage(pc[j])
            b == Stage(pc'[j])
            d == tmpdir[j]
            n == data[j].total_scenes
        IN a # b =>
             /\ <<a, b>> \in StageEdges
             /\ b = "BUILDING_TIMELINE" =>
                  /\ Cardinality(OkDownloads(calls[j])) = 2 * n
                  /\ \A i \in 0 .. n - 1 :
                       LocalImage(d, i) \in DOMAIN fs /\ LocalAudio(d, i) \in DOMAIN fs
             /\ b = "MERGING_AUDIO" => ConcatFile(d) \in DOMAIN fs'
             /\ b = "ENCODING" =>
                  Logged(calls'[j], "audio_concat", TRUE) /\ FullAudio(d) \in DOMAIN fs'
             /\ b = "PUBLISHING" =>
                  Logged(calls'[j], "encode", TRUE) /\ OutputVideo(d, data[j]) \in DOMAIN fs'
             /\ b = "DONE" => Logged(calls'[j], "upload", TRUE)
    ]_vars

\* a job of at least one scene went through every stage
C2_Witness ==
  \E j \in Threads :
    /\ pc[j] = "done"
    /\ data[j].total_scenes >= 1
    /\ Len(calls[j]) = 2 * data[j].total_scenes + 3

C4_ScratchRemoved ==
  /\ \A p \in DOMAIN fs : \E j \in Threads : Active(j) /\ tmpdir[j] = p[1]
  /\ \A x \in dirs : \E j \in Threads : Active(j) /\ tmpdir[j] = x[1]
  /\ \A j \in Threads : ~Active(j) => tmpdir[j] = NoDir
  /\ (\A j \in Threads : ~Active(j)) => (DOMAIN fs = {} /\ dirs = {})

\* a job ended by an encode failure, another one before it, and a clean disk
C4_Witness ==
  \E j \in Threads :
    /\ pc[j] = "failed"
    /\ Logged(calls[j], "encode", FALSE)
    /\ OutputKey(data[j]) \in DOMAIN store
    /\ DOMAIN fs = {}
    /\ dirs = {}

(* C5: for a job of N >= 1 scenes the edit list in concat.txt has N+1       *)
(* entries: entry i (0 <= i < N) is the local file of image i with         *)
(* duration D, the last entry is the file of image N-1 with no duration,   *)
(* and the listed durations add up to N*D.                                 *)
C5_EditList ==
  \A j \in Threads :
    (Active(j) /\ ConcatFile(tmpdir[j]) \in DOMAIN fs /\ data[j].total_scenes >= 1) =>
      LET n == data[j].total_scenes
          d == data[j].duration_per_scene
          el == EditList(fs[ConcatFile(tmpdir[j])].lines)
      IN /\ Len(el) = n + 1
         /\ \A i \in 0 .. n - 1 :
              /\ el[i + 1].path = LocalImage(tmpdir[j], i)
              /\ el[i + 1].duration = <<d>>
              /\ fs[el[i + 1].path] = store[ImageKey(data[j], i)]
         /\ el[n + 1].path = LocalImage(tmpdir[j], n - 1)
         /\ el[n + 1].duration = << >>
         /\ ListedSeconds(el) = n * d

\* the edit list of a job with the largest number of scenes has been written
C5_Witness ==
  \E j \in Threads :
    /\ Active(j)
    /\ ConcatFile(tmpdir[j]) \in DOMAIN fs
    /\ data[j].total_scenes = MaxScenes
    /\ data[j].duration_per_scene > 1

\* seconds of audio of the N clips job r reads
RECURSIVE ClipSeconds(_, _)
ClipSeconds(r, n) ==
  IF n <= 0 THEN 0
  ELSE ClipSeconds(r, n - 1) + Len(store[AudioKey(r, n - 1)].samples)

\* the output a finished or publishing job has produced
Produced(j) ==
  IF pc[j] = "done" THEN store[OutputKey(data[j])]
  ELSE fs[OutputVideo(tmpdir[j], data[j])]

(* C6 as stated: the output of a job that reaches DONE has exactly         *)
(* min(N*D, total audio seconds) * F frames.                               *)
C6_ExactShortest ==
  \A j \in Threads :
    pc[j] \in {"publish", "done"} =>
      LET r == data[j]
      IN Produced(j).frames =
           Min(r.total_scenes * r.duration_per_scene, ClipSeconds(r, r.total_scenes)) * r.fps

(* C6 amended: the output has min(N*D*F + t, A*F) frames, where A is the   *)
(* total audio seconds and t, at most TrailFrames, is what the entry       *)
(* without a duration adds; so it has exactly A*F frames when the audio is *)
(* not longer than N*D, and at most t frames more than N*D*F otherwise. A  *)
(* mismatch of the two lengths does not stop the job from reaching DONE.   *)
C6_ShortestWithinTrail ==
  \A j \in Threads :
    pc[j] \in {"publish", "done"} =>
      LET r == data[j]
          v == r.total_scenes * r.duration_per_scene * r.fps
          a == ClipSeconds(r, r.total_scenes) * r.fps
      IN /\ \E t \in 0 .. TrailFrames : Produced(j).frames = Min(v + t, a)
         /\ a <= v => Produced(j).frames = a
         /\ Produced(j).fps = r.fps

\* a job reached DONE although its audio is longer than its timeline
C6_Witness ==
  \E j \in Threads :
    /\ pc[j] = "done"
    /\ ClipSeconds(data[j], data[j].total_scenes)
         > data[j].total_scenes * data[j].duration_per_scene
    /\ store[OutputKey(data[j])].frames
         > data[j].total_scenes * data[j].duration_per_scene * data[j].fps

\* the samples of clips 0..n-1 of job r, one clip after the other
RECURSIVE ClipsInOrder(_, _)
ClipsInOrder(r, n) ==
  IF n <= 0 THEN << >>
  ELSE ClipsInOrder(r, n - 1) \o store[AudioKey(r, n - 1)].samples

(* C7: the audio list names exactly the N fetched clips in index order,    *)
(* and the merged track is the samples of clips 0..N-1 one after the       *)
(* other, nothing added or dropped, its length the sum of the clip         *)
(* lengths.                                                                *)
C7_AudioInOrder ==
  \A j \in Threads :
    (Active(j) /\ FullAudio(tmpdir[j]) \in DOMAIN fs) =>
      LET n == data[j].total_scenes
          listed == EditList(fs[AudioListFile(tmpdir[j])].lines)
          merged == fs[FullAudio(tmpdir[j])].samples
      IN /\ Len(listed) = n
         /\ \A i \in 0 .. n - 1 :
              /\ listed[i + 1].path = LocalAudio(tmpdir[j], i)
              /\ fs[listed[i + 1].path] = store[AudioKey(data[j], i)]
         /\ merged = ClipsInOrder(data[j], n)
         /\ Len(merged) = ClipSeconds(data[j], n)

\* two clips of different length have been merged
C7_Witness ==
  \E j \in Threads :
    /\ Active(j)
    /\ FullAudio(tmpdir[j]) \in DOMAIN fs
    /\ data[j].total_scenes >= 2
    /\ Len(store[AudioKey(data[j], 0)].samples) # Len(store[AudioKey(data[j], 1)].samples)

\* the last external call of the job was an encoder run that exited non-zero
EncodeExitedNonZero(j) ==
  /\ calls[j] # << >>
  /\ calls[j][Len(calls[j])].op = "encode"
  /\ ~calls[j][Len(calls[j])].ok

(* C8: after a non-zero exit of the encoder the job is FAILED, no upload   *)
(* was attempted, and the single response is HTTP 500 with an error field  *)
(* and a details field equal to the encoder's stderr text.                 *)
C8_EncodeError ==
  \A j \in Threads :
    EncodeExitedNonZero(j) =>
      /\ pc[j] = "failed"
      /\ ~LoggedAny(calls[j], "upload")
      /\ Len(resp[j]) = 1
      /\ resp[j][1].code = 500
      /\ DOMAIN resp[j][1].body = {"error", "details"}
      /\ resp[j][1].body.details = calls[j][Len(calls[j])].stderr
      /\ resp[j][1].body.details \in Diagnostics

\* an encode failure was reported
C8_Witness ==
  \E j \in Threads :
    /\ EncodeExitedNonZero(j)
    /\ Len(resp[j]) = 1
    /\ data[j].total_scenes = MaxScenes

(* C9: every failed job has exactly one response, HTTP 500, whose body     *)
(* carries the error kind and its diagnostic detail.                       *)
C9_ErrorCarriesKind ==
  \A j \in Threads :
    pc[j] = "failed" =>
      /\ Len(resp[j]) = 1
      /\ resp[j][1].code = 500
      /\ {"error", "details"} \subseteq DOMAIN resp[j][1].body

\* no call is made twice in one job, and only the last call can have failed
AtMostOnce(cs) ==
  /\ \A m, n \in 1 .. Len(cs) :
       (cs[m].op = cs[n].op /\ cs[m].target = cs[n].target) => m = n
  /\ \A n \in 1 .. Len(cs) - 1 : cs[n].ok

(* C10: within one job no external step is attempted twice; the step that  *)
(* fails is the last step of the job and leaves it FAILED; a FAILED job    *)
(* stays FAILED until its thread is released, and a released thread only   *)
(* starts a new job at the first download, with an empty call log and an   *)
(* empty scratch directory.                                                *)
C10_NoRetry ==
  [][ \A j \in Threads :
        /\ AtMostOnce(calls'[j])
        /\ (\E n \in 1 .. Len(calls'[j]) : ~calls'[j][n].ok) => pc'[j] = "failed"
        /\ pc[j] = "failed" =>
             \/ pc'[j] = "failed" /\ calls'[j] = calls[j] /\ resp'[j] = resp[j]
             \/ pc'[j] = "idle" /\ calls'[j] = << >> /\ resp'[j] = << >>
        /\ (pc[j] = "idle" /\ pc'[j] # "idle") =>
             /\ pc'[j] = "fetch_images"
             /\ idx'[j] = 0
             /\ calls'[j] = << >>
             /\ tmpdir'[j] # NoDir
             /\ DOMAIN FilesOutside(tmpdir'[j], fs') = DOMAIN fs'
    ]_vars

\* a job failed in its upload after every earlier step had succeeded once
C10_Witness ==
  \E j \in Threads :
    /\ pc[j] = "failed"
    /\ Logged(calls[j], "upload", FALSE)
    /\ Len(calls[j]) = 2 * data[j].total_scenes + 3

----------------------------------------------------------------------------
C12_FetchedFiles ==
  \A j \in Threads :
    pc[j] = "timeline" =>
      LET r == data[j]
          d == tmpdir[j]
          N == r.total_scenes
          image(i) == <<d, "images", "scene_">> \o Fmt03d(i) \o <<".png">>
          audio(i) == <<d, "audio", "narration_">> \o Fmt03d(i) \o <<".mp3">>
          held == {f \in DOMAIN fs : f[1] = d}
      IN /\ held = {image(i) : i \in 0 .. N - 1} \cup {audio(i) : i \in 0 .. N - 1}
         /\ Cardinality({f \in held : f[2] = "images"}) = N
         /\ Cardinality({f \in held : f[2] = "audio"}) = N
         /\ \A i \in 0 .. N - 1 :
              /\ fs[image(i)] =
                   store[<<r.images_bucket, r.images_path \o <<"scene_">> \o Fmt03d(i) \o <<".png">> >>]
              /\ fs[audio(i)] =
                   store[<<r.audio_bucket, r.audio_path \o <<"narration_">> \o Fmt03d(i) \o <<".mp3">> >>]
              /\ fs[image(i)].scene = i
              /\ fs[audio(i)].samples[1][1] = i

\* the fetch stage of a job of two scenes has completed
C12_Witness ==
  \E j \in Threads :
    /\ pc[j] = "timeline"
    /\ data[j].total_scenes = 2
    /\ LocalImage(tmpdir[j], 1) \in DOMAIN fs
    /\ LocalAudio(tmpdir[j], 1) \in DOMAIN fs

\* thread j takes no step in the transition
Untouched(j) == pc'[j] = pc[j] /\ idx'[j] = idx[j]

\* the files and directories under the scratch directory of thread j
ScratchFiles(j, files) ==
  [f \in {g \in DOMAIN files : g[1] = tmpdir[j]} |-> files[f]]
ScratchDirs(j, ds) == {g \in ds : g[1] = tmpdir[j]}

\* the external steps job r takes when every one of them succeeds
AlonePlan(r) ==
  [n \in 1 .. 2 * r.total_scenes |-> "download"]
    \o <<"audio_concat", "encode", "upload">>

\* the video job r produces from its own assets
AloneOutput(r) ==
  [ type |-> "mp4",
    frames |-> Min(r.total_scenes * r.duration_per_scene * r.fps + trailing,
                   ClipSeconds(r, r.total_scenes) * r.fps),
    fps |-> r.fps,
    scale |-> << <<r.resolution[1]>>, <<r.resolution[3]>> >>,
    complete |-> TRUE,
    size |-> Min(r.total_scenes * r.duration_per_scene * r.fps + trailing,
                 ClipSeconds(r, r.total_scenes) * r.fps) * (2 ^ 14) ]

(* C13: two jobs of different episodes running in the same process hold    *)
(* different scratch directories; a step of one thread changes no local    *)
(* variable, no scratch file and no scratch directory of the other thread   *)
(* and no blob but the output blob of its own job; and each job ends as it  *)
(* would alone: its calls are the downloads of its own assets in order and *)
(* then the merge, the encode and the upload, up to the first that fails;  *)
(* a download fails exactly when its blob does not exist; the job is DONE   *)
(* exactly when all 2N+3 calls succeeded, and then its output blob is the  *)
(* video made of its own assets and the response reports that blob.        *)
C13_Isolation ==
  /\ [](\A j, k \in Threads :
          (j # k /\ tmpdir[j] # NoDir /\ tmpdir[k] # NoDir) => tmpdir[j] # tmpdir[k])
  /\ [][ /\ \A j \in Threads :
              Untouched(j) =>
                /\ <<data'[j], tmpdir'[j], calls'[j], exc'[j], resp'[j]>>
                     = <<data[j], tmpdir[j], calls[j], exc[j], resp[j]>>
                /\ ScratchFiles(j, fs') = ScratchFiles(j, fs)
                /\ ScratchDirs(j, dirs') = ScratchDirs(j, dirs)
         /\ \A key \in DOMAIN store' :
              (key \notin DOMAIN store \/ store'[key] # store[key]) =>
                \E j \in Threads : ~Untouched(j) /\ key = OutputKey(data[j])
         /\ DOMAIN store \subseteq DOMAIN store'
       ]_vars
  /\ [](\A j \in Threads :
          pc[j] \in {"done", "failed"} =>
            LET r == data[j]
                cs == calls[j]
                plan == AlonePlan(r)
            IN /\ Len(cs) >= 1
               /\ Len(cs) <= Len(plan)
               /\ \A n \in 1 .. Len(cs) :
                    /\ cs[n].op = plan[n]
                    /\ n < Len(cs) => cs[n].ok
                    /\ cs[n].op = "download" =>
                         /\ cs[n].target = DownloadOrder(r)[n]
                         /\ cs[n].ok <=> (cs[n].target \in DOMAIN store)
               /\ pc[j] = "done" <=> (Len(cs) = Len(plan) /\ cs[Len(cs)].ok)
               /\ pc[j] = "done" =>
                    /\ store[OutputKey(r)] = AloneOutput(r)
                    /\ resp[j] = << [code |-> 200,
                                     body |-> [status |-> "success",
                                               video_url |-> VideoUrl(r),
                                               video_size_mb |-> SizeMb(AloneOutput(r).size)]] >>
               /\ pc[j] = "failed" => (Len(resp[j]) = 1 /\ resp[j][1].code = 500))

\* both jobs are in flight, one merging audio while the other still fetches
C13_Witness ==
  /\ pc[1] = "fetch_audio"
  /\ pc[2] = "audio_concat"
  /\ idx[1] = 1
  /\ tmpdir[1] = DirNames[2]
  /\ OutputKey(data[1]) \in DOMAIN store

\* both generators have answered success for every scene 0..n-1 of episode e
AllGenerated(e, n) ==
  \A k \in 0 .. n - 1 :
    <<"image", e, k>> \in generated /\ <<"audio", e, k>> \in generated

(* C14: once the image generator and the audio generator have each         *)
(* answered success for every scene_number in 0..N-1 of episode e, every   *)
(* blob an /assemble job with the two generator buckets, images_path =     *)
(* audio_path = "episode_{e:03d}/" and total_scenes = N reads for index k  *)
(* exists and is the asset generated for scene_number k, and a step of     *)
(* such a job taken from then on does not end in a missing blob.           *)
C14_AssetsFound ==
  /\ [](\A N \in 0 .. MaxScenes :
          AllGenerated(1, N) =>
            \A r \in {q \in RequestsOf(1) : q.total_scenes = N} :
              \A k \in 0 .. N - 1 :
                /\ ImageKey(r, k) \in DOMAIN store
                /\ store[ImageKey(r, k)] = ImageContent(k)
                /\ AudioKey(r, k) \in DOMAIN store
                /\ store[AudioKey(r, k)].type = "mp3"
                /\ store[AudioKey(r, k)].samples[1][1] = k)
  /\ [][ \A j \in Threads :
           (Active(j) /\ AllGenerated(data[j].episode_number, data[j].total_scenes))
             => /\ MissingAssets(data[j]) = {}
                /\ exc'[j].type # "NotFound"
       ]_vars

\* a job of MaxScenes scenes has fetched every generated asset and is DONE
C14_Witness ==
  /\ pc[1] = "done"
  /\ data[1].total_scenes = MaxScenes
  /\ AllGenerated(1, MaxScenes)
  /\ Cardinality(OkDownloads(calls[1])) = 2 * MaxScenes

----------------------------------------------------------------------------
\* thread t is inside the body of initialize_services
InBody(t) ==
  gpc[t] \in {"init_vertex", "init_storage", "load_profile", "load_rules", "set_flag"}

(* C18: the body of initialize_services is executed at most once in a      *)
(* process: two threads are never inside it together, it is never entered  *)
(* again after an execution that ran to its end, and the execution that    *)
(* reaches its end finds the flag still unset.                             *)
C18_InitOnce ==
  /\ [](\A t, u \in GenThreads : (InBody(t) /\ InBody(u)) => t = u)
  /\ [][ \A t \in GenThreads :
           /\ (gpc[t] = "set_flag" /\ gpc'[t] # "set_flag") => ~vertex_initialized
           /\ (~InBody(t) /\ InBody(t)') => ~vertex_initialized
       ]_vars

(* C20: whenever _vertex_initialized is True, _model and _storage_client   *)
(* are set, so a handler that has passed initialize_services works with    *)
(* set clients; the flag changes only from False to True and only in the   *)
(* last step of the body; a step of the body that raises answers 500 and   *)
(* leaves the flag as it was; and a request that finds the flag False      *)
(* enters the body.                                                        *)
C20_FlagImpliesClients ==
  /\ [](vertex_initialized => (model # None /\ storage_client # None))
  /\ [](\A t \in GenThreads :
          gpc[t] \in {"parse", "reference", "generate", "upload"} =>
            (vertex_initialized /\ model # None /\ storage_client # None))
  /\ [][ /\ vertex_initialized' # vertex_initialized =>
              /\ vertex_initialized' = TRUE
              /\ \E t \in GenThreads : gpc[t] = "set_flag" /\ gpc'[t] = "parse"
         /\ \A t \in GenThreads :
              /\ (InBody(t) /\ gpc'[t] = "sent") =>
                   /\ vertex_initialized' = vertex_initialized
                   /\ gresp'[t] = <<InternalServerError>>
              /\ (gpc[t] = "initialize" /\ gpc'[t] # "initialize") =>
                   IF vertex_initialized THEN gpc'[t] = "parse"
                   ELSE gpc'[t] = "init_vertex"
       ]_vars

\* after an initialization that raised in storage.Client (the model is set,
\* the storage client and the flag are not) the next request has entered
\* the body again
C20_Witness ==
  \E t \in GenThreads :
    /\ gpc[t] = "init_vertex"
    /\ initRuns = 2
    /\ ~vertex_initialized
    /\ model # None
    /\ storage_client = None
    /\ \A u \in GenThreads \ {t} : gpc[u] = "idle"

----------------------------------------------------------------------------
(* One thread serving jobs one after the other, with a record of the       *)
(* stages of the job in progress and of the job before it                  *)

\* what a finished job did and answered
RunRecord(j) ==
  [ final  |-> pc[j],
    data   |-> data[j],
    calls  |-> calls[j],
    trace  |-> trace,
    resp   |-> resp[j],
    output |-> IF pc[j] = "done" THEN <<store[OutputKey(data[j])]>> ELSE << >> ]

\* stores whose clips all have the same length, with or without the last image
RerunStores ==
  {InitialStore(imgs, [i \in SceneIndexes |-> d]) :
     imgs \in {SceneIndexes, SceneIndexes \ {MaxScenes - 1}}, d \in 0 .. MaxClipDur}

\* payloads of one second a scene and two frames a second
RerunRequests ==
  {r \in Requests : r.duration_per_scene = 1 /\ r.fps = 2}

InitRerun ==
  /\ store \in RerunStores
  /\ AssemblerIdle
  /\ GeneratorCold
  /\ ServicesIdle

NextRerun ==
  /\ \E j \in SeqThreads :
       \/ /\ RequestFrom(j, RerunRequests) \/ JobStep(j)
          /\ trace' = IF Stage(pc'[j]) # Stage(pc[j])
                      THEN Append(trace, Stage(pc'[j])) ELSE trace
          /\ UNCHANGED prev
       \/ /\ Release(j)
          /\ prev' = RunRecord(j)
          /\ trace' = << >>
  /\ UNCHANGED <<trailing, generatorVars, serviceVars>>

SpecRerun == InitRerun /\ [][NextRerun]_vars

\* the external step a call record stands for
StepId(c) ==
  IF c.op \in {"download", "upload"} THEN <<c.op, c.target>> ELSE <<c.op, << >> >>
StepIds(cs) == [n \in 1 .. Len(cs) |-> StepId(cs[n])]

\* every external step both logs hold had the same outcome in both
SameOutcomes(cs, ds) ==
  \A m \in 1 .. Len(cs) : \A n \in 1 .. Len(ds) :
    StepId(cs[m]) = StepId(ds[n]) =>
      (cs[m].ok = ds[n].ok /\ cs[m].stderr = ds[n].stderr)

(* C15: a job that ends after a job with the same request has run against *)
(* the same stored assets, every external step the two have in common     *)
(* having had the same outcome, has gone through the same stages, taken    *)
(* the same external steps, reached the same terminal state and answered   *)
(* the same, and when both are DONE their outputs have the same number of  *)
(* frames at the same frame rate and the same resolution.                  *)
C15_SameRunTwice ==
  \A j \in SeqThreads :
    ( /\ pc[j] \in {"done", "failed"}
      /\ prev.final # "none"
      /\ prev.data = data[j]
      /\ SameOutcomes(prev.calls, calls[j]) )
    => /\ trace = prev.trace
       /\ StepIds(calls[j]) = StepIds(prev.calls)
       /\ pc[j] = prev.final
       /\ resp[j] = prev.resp
       /\ pc[j] = "done" =>
            LET out == store[OutputKey(data[j])]
                before == prev.output[1]
            IN /\ out.frames = before.frames
               /\ out.fps = before.fps
               /\ out.scale = before.scale

\* the same job of MaxScenes scenes has reached DONE twice in a row
C15_Witness ==
  \E j \in SeqThreads :
    /\ pc[j] = "done"
    /\ prev.final = "done"
    /\ prev.data = data[j]
    /\ data[j].total_scenes = MaxScenes
    /\ trace = <<"FETCHING", "BUILDING_TIMELINE", "MERGING_AUDIO", "ENCODING",
                 "PUBLISHING", "DONE">>

----------------------------------------------------------------------------
\* the seconds of the fetched clips 0..k-1 of thread j
RECURSIVE FetchedSeconds(_, _)
FetchedSeconds(j, k) ==
  IF k <= 0 THEN 0
  ELSE FetchedSeconds(j, k - 1) + Len(fs[LocalAudio(tmpdir[j], k - 1)].samples)

----------------------------------------------------------------------------
(* One thread serving jobs, every external call of a job returning in the  *)
(* end: a step of the running job that can be taken is taken               *)

Progress(j) ==
  /\ JobStep(j)
  /\ UNCHANGED <<trailing, generatorVars, historyVars, serviceVars>>

InitLive ==
  /\ store \in RerunStores
  /\ AssemblerIdle
  /\ GeneratorCold
  /\ ServicesIdle

SpecLive ==
  /\ InitLive
  /\ [][Next]_vars
  /\ \A j \in SeqThreads : WF_vars(Progress(j))

(* C17: every job that has started reaches DONE or FAILED, and its caller  *)
(* has received no response while it runs and exactly one when it is over. *)
C17_Terminates ==
  /\ \A j \in SeqThreads : Active(j) ~> (pc[j] \in {"done", "failed"})
  /\ [](\A j \in SeqThreads :
          /\ Active(j) => resp[j] = << >>
          /\ pc[j] \in {"done", "failed"} => Len(resp[j]) = 1)

\* a job of MaxScenes scenes is DONE after 2 * MaxScenes + 3 external calls
C17_Witness ==
  \E j \in SeqThreads :
    /\ pc[j] = "done"
    /\ Len(resp[j]) = 1
    /\ data[j].total_scenes = MaxScenes
    /\ Len(calls[j]) = 2 * MaxScenes + 3

----------------------------------------------------------------------------
\* the local files the fetch stage of thread j has written
Fetched(j) ==
  {LocalImage(tmpdir[j], i) : i \in 0 .. data[j].total_scenes - 1}
    \cup {LocalAudio(tmpdir[j], i) : i \in 0 .. data[j].total_scenes - 1}

\* the paths an edit list file names
ListedPaths(file) == {file.lines[n].path : n \in {m \in DOMAIN file.lines :
                                                   file.lines[m].directive = "file"}}

(* C19: every path named in concat.txt and in audio_list.txt of a job is   *)
(* the path of a file its fetch stage downloaded, and that file exists in  *)
(* the scratch directory.                                                  *)
C19_ListsNameFetched ==
  \A j \in Threads :
    Active(j) =>
      /\ ConcatFile(tmpdir[j]) \in DOMAIN fs =>
           \A p \in ListedPaths(fs[ConcatFile(tmpdir[j])]) :
             p \in Fetched(j) /\ p \in DOMAIN fs
      /\ AudioListFile(tmpdir[j]) \in DOMAIN fs =>
           \A p \in ListedPaths(fs[AudioListFile(tmpdir[j])]) :
             p \in Fetched(j) /\ p \in DOMAIN fs

----------------------------------------------------------------------------
\* the blobs of bucket bass-ic-images
ImageBlobs(st) == [k \in {q \in DOMAIN st : q[1] = "bass-ic-images"} |-> st[k]]

\* thread t of the Cloud Run generator, or the function, answers in this step
RunAnswers(t) == gresp[t] = << >> /\ gresp'[t] # << >>
FnAnswers == fcall = << >> /\ fcall' # << >>

\* an answer and the image bucket agree: success goes with the blob of the
\* request being in the bucket after the step, every other answer is a 400
\* for a missing payload or a 500 and leaves the bucket as it was
AnswerMatchesBucket(r, answer) ==
  IF answer.code = 200
  THEN /\ answer.body.status = "success"
       /\ GenImageKey(r.episode_number, r.scene_number) \in DOMAIN store'
       /\ store'[GenImageKey(r.episode_number, r.scene_number)]
            = ImageContent(r.scene_number)
  ELSE /\ ImageBlobs(store') = ImageBlobs(store)
       /\ answer.code \in {400, 500}
       /\ answer.code = 400 => ~r.json
       /\ r.json => answer.code = 500

\* what holds of every step of the two generators whatever the sheet holds
WriteIffSuccess ==
  /\ \A t \in GenThreads : RunAnswers(t) => AnswerMatchesBucket(greq[t], gresp'[t][1])
  /\ FnAnswers => AnswerMatchesBucket(fcall'[1].req, fcall'[1].resp)
  /\ ImageBlobs(store') # ImageBlobs(store) =>
       \/ \E t \in GenThreads : RunAnswers(t) /\ gresp'[t][1].code = 200
       \/ FnAnswers /\ fcall'[1].resp.code = 200
  /\ \A t \in GenThreads :
       (gpc[t] = "generate" /\ gpc'[t] = "sent") => gresp'[t][1].code = 500

\* the reference step of a request whose pose is not on the sheet, given
\* that fallback holds, goes on with pose_00 and does not answer
FallsBack(fallback) ==
  /\ \A t \in GenThreads :
       ( /\ gpc[t] = "reference" /\ gpc'[t] # "reference"
         /\ PoseKey(greq[t].pose_id) \notin DOMAIN store
         /\ fallback )
       => gpc'[t] = "generate"
  /\ ( /\ FnAnswers
       /\ fcall'[1].req.json
       /\ PoseKey(fcall'[1].req.pose_id) \notin DOMAIN store
       /\ fallback )
     => /\ fcall'[1].ref = <<PoseKey(0)>>
        /\ fcall'[1].resp.code = 500 => fcall'[1].resp.body.error # "NotFound"

(* C21 as stated: a blob is written to bass-ic-images exactly by a request *)
(* that ends with success, every other request ends with an error and      *)
(* leaves the bucket as it was, and a request whose pose reference does    *)
(* not exist goes on with pose_00 and never fails at the reference.        *)
C21_WriteIffSuccessAlwaysFallsBack ==
  [][WriteIffSuccess /\ FallsBack(TRUE)]_vars

(* C21 amended: as above, but the request goes on with pose_00 when        *)
(* pose_00 exists; when the pose reference and pose_00 are both missing    *)
(* (so also for pose_id 0 itself) the request ends with HTTP 500 and no    *)
(* blob is written.                                                        *)
C21_WriteIffSuccessFallsBackIfDefault ==
  [][ /\ WriteIffSuccess
      /\ FallsBack(PoseKey(0) \in DOMAIN store)
      /\ \A t \in GenThreads :
           ( /\ gpc[t] = "reference" /\ gpc'[t] # "reference"
             /\ PoseKey(greq[t].pose_id) \notin DOMAIN store
             /\ PoseKey(0) \notin DOMAIN store )
           => /\ gresp'[t] = <<GenErrorResponse(greq[t], "NotFound")>>
              /\ store' = store
      /\ ( /\ FnAnswers
           /\ fcall'[1].req.json
           /\ PoseKey(0) \notin DOMAIN store
           /\ PoseKey(fcall'[1].req.pose_id) \notin DOMAIN store )
         => /\ fcall'[1].resp = FnErrorResponse(fcall'[1].req, "NotFound")
            /\ store' = store
    ]_vars

\* the function has answered success for pose 1 using pose_00, and the
\* Cloud Run generator has answered 500 for a scene whose blob the function wrote
C21_Witness ==
  /\ fcall # << >>
  /\ fcall[1].resp.code = 200
  /\ fcall[1].req.pose_id = 1
  /\ fcall[1].ref = <<PoseKey(0)>>
  /\ gresp[1] # << >>
  /\ gresp[1][1].code = 500
  /\ greq[1].json
  /\ GenImageKey(1, greq[1].scene_number) \in DOMAIN store

\* the answer of the scene parser to the running request, if it has answered
ParseAnswered == ppc = "done" /\ presp # << >>

\* the model call for some shot of the running request raised
SomeShotFailed == \E i \in 1..Len(answers) : answers[i] \in Failures

\* entry i of the answer is shot i of the script with the model's answer i
\* (or the defaults) in the four fields and every other field as it was
EntryFromShot(entry, shot, ai) ==
  /\ DOMAIN entry = DOMAIN shot \cup AiFields
  /\ \A k \in DOMAIN shot \ AiFields : entry[k] = shot[k]
  /\ entry.camera_preset_id =
       (IF "camera_preset_id" \in DOMAIN ai THEN ai.camera_preset_id ELSE "static_mid")
  /\ entry.pose_id = (IF "pose_id" \in DOMAIN ai THEN ai.pose_id ELSE 0)
  /\ entry.lighting_notes =
       (IF "lighting_notes" \in DOMAIN ai THEN ai.lighting_notes
        ELSE IF "lighting_notes" \in DOMAIN shot THEN shot.lighting_notes ELSE "")
  /\ entry.ai_reasoning = (IF "reasoning" \in DOMAIN ai THEN ai.reasoning ELSE "")

\* C22: the scene parser is all-or-nothing and order-preserving: a success
\* answer lists exactly the script's shots, in order, each with its own
\* fields kept and the four cinematography fields set from the model's
\* answer for that shot or their defaults, and total_shots is their number;
\* when the processing of any shot failed the answer is an error with HTTP
\* 500 that carries no shot
C22_AllOrNothingInOrder ==
  ParseAnswered =>
    LET a == presp[1] IN
    /\ Len(presp) = 1
    /\ a.code = 200 =>
         /\ a.body.status = "success"
         /\ Len(a.body.shots) = Len(ScriptShots)
         /\ a.body.total_shots = Len(ScriptShots)
         /\ Len(answers) = Len(ScriptShots)
         /\ \A i \in 1..Len(ScriptShots) :
              EntryFromShot(a.body.shots[i], ScriptShots[i], answers[i])
    /\ SomeShotFailed => a.code = 500
    /\ a.code # 200 => DOMAIN a.body = {"error"}

\* a script of MaxShots shots, the second carrying its own pose and notes,
\* has been answered with success after a model answer that left fields out
C22_Witness ==
  /\ ParseAnswered
  /\ presp[1].code = 200
  /\ Len(ScriptShots) = MaxShots
  /\ "pose_id" \in DOMAIN ScriptShots[MaxShots]
  /\ "pose_id" \notin DOMAIN answers[MaxShots]
  /\ "lighting_notes" \notin DOMAIN answers[MaxShots]

\* the model call for the second shot raised after the first shot was
\* processed, and the request has been answered
C22_WitnessFailure ==
  /\ ParseAnswered
  /\ Len(answers) = 2
  /\ answers[1] \in Suggestions
  /\ answers[2] \in Failures

\* the poses of which this run has uploaded both the image and the metadata
BothUploaded ==
  {k \in 1..NumPoses :
     PoseKey(POSES[k].id) \in uploaded /\ MetadataKey(POSES[k].id) \in uploaded}

\* C23: main passes the 20 poses to generate_pose once each, in list order,
\* going on after a failed generation or upload; it ends, and at the end
\* successful + failed = 20 with successful the number of poses whose image
\* and metadata blob were both uploaded
C23_EachPoseOnceThenEnds ==
  /\ [](/\ Len(attempted) <= NumPoses
        /\ \A k \in 1..Len(attempted) : attempted[k] = POSES[k].id
        /\ successful = Cardinality(BothUploaded)
        /\ successful + failed = Len(attempted)
        /\ mpc = "done" => Len(attempted) = 20 /\ successful + failed = 20)
  /\ <>(mpc = "done")

\* the run is over after a generation failure on one pose and a failed
\* metadata upload on a later one
C23_Witness ==
  /\ mpc = "done"
  /\ failed = 2
  /\ successful = 18
  /\ \E k \in 1..NumPoses :
       /\ PoseKey(POSES[k].id) \in uploaded
       /\ MetadataKey(POSES[k].id) \notin uploaded
  /\ \E k \in 1..(NumPoses - 1) :
       /\ PoseKey(POSES[k].id) \notin uploaded
       /\ PoseKey(POSES[k + 1].id) \in uploaded

\* a webhook is configured
Configured == SLACK_WEBHOOK_URL \notin {None, ""}

\* the /notify call being answered made one outbound POST and answers
\* "sent" exactly if it succeeded, HTTP 500 with the error otherwise
OnePostAnswered(c) ==
  /\ Len(c.posts) = 1
  /\ c.posts[1].url = SLACK_WEBHOOK_URL
  /\ LET ok == "status" \in DOMAIN c.posts[1].outcome
               /\ c.posts[1].outcome.status \in 200..399 IN
     /\ ok => c.resp = [code |-> 200, body |-> [status |-> "sent"]]
     /\ ~ok => c.resp.code = 500 /\ DOMAIN c.resp.body = {"error"}

\* without a webhook every call is answered 200 "skipped" with no outbound
\* request
SkippedUnconfigured ==
  (ncall # << >> /\ ~Configured) =>
    /\ ncall[1].posts = << >>
    /\ ncall[1].resp.code = 200
    /\ ncall[1].resp.body.status = "skipped"

\* C24 as stated: without a webhook every /notify request is answered 200
\* "skipped" with no outbound request; with a webhook every /notify request
\* makes exactly one outbound POST and answers "sent" (200) exactly if the
\* POST succeeded, HTTP 500 with the error otherwise
C24_EveryRequestPostsOnce ==
  /\ SkippedUnconfigured
  /\ (ncall # << >> /\ Configured) => OnePostAnswered(ncall[1])

\* what the code does keep: with a webhook, the requests whose body is a
\* JSON object make exactly one outbound POST and answer "sent" (200)
\* exactly if it succeeded, HTTP 500 with the error otherwise; a request
\* with any other body leaves the handler before the try, makes no outbound
\* request and is answered 400, 415 or 500 by the framework
ObjectRequestPostsOnce ==
  /\ SkippedUnconfigured
  /\ (ncall # << >> /\ Configured) =>
       IF ncall[1].req.kind = "object"
       THEN OnePostAnswered(ncall[1])
       ELSE /\ ncall[1].posts = << >>
            /\ ncall[1].resp.code \in {400, 415, 500}
            /\ "status" \notin DOMAIN ncall[1].resp.body

\* with a webhook, a call with a JSON object was answered 500 after the
\* webhook answered its one POST with an error status
ObjectRequestRefused ==
  /\ Configured
  /\ ncall # << >>
  /\ ncall[1].req.kind = "object"
  /\ Len(ncall[1].posts) = 1
  /\ ncall[1].posts[1].outcome = [status |-> 404]
  /\ ncall[1].resp.code = 500

\* without a webhook, a call was answered "skipped"
SkippedReached ==
  /\ ~Configured
  /\ ncall # << >>
  /\ ncall[1].resp.body.status = "skipped"

====
